---- MODULE Spec2Model ----
(***************************************************************************)
(* A model of the schedule assembly pipeline of dtd2mysql (CIF -> GTFS):   *)
(* the ScheduleCalendar algebra, the overlay resolver (applyOverlays), the *)
(* schedule flattener (mergeSchedules), the streaming ScheduleBuilder, the *)
(* stop_times writer of OutputGTFSCommand.copyTrips, OutputGTFSCommand.run,*)
(* Association.apply and the headsign inference of fillStopHeadsigns.      *)
(*                                                                         *)
(* Dates are day numbers; day d falls on weekday d % 7 with 0 = Sunday, as *)
(* moment's day().  A nullable calendar is a set holding at most one       *)
(* calendar: {} is null.                                                   *)
(***************************************************************************)
EXTENDS Integers, Sequences, FiniteSets, TLC

VARIABLES
  calThis,      \* ScheduleCalendar: the receiver of the calendar operation
  calOther,     \* ScheduleCalendar: the argument of the calendar operation
  calOp,        \* the calendar operation applied last
  calArgs,      \* clone's arguments (start, end, removeDays, excludeDays)
  calOverlap,   \* the OverlapType returned by getOverlap
  calOut,       \* the calendar returned by the operation ({} is null)
  schedulesByTuid, \* applyOverlays: the OverlayIndex, TUID -> list of records
  ovCount,      \* applyOverlays: the number of input records processed
  ovSeenOverlay, \* applyOverlays: a non-Permanent record has been processed
  ovLast,       \* applyOverlays: the record processed last ({} before the first)
  ovBefore,     \* applyOverlays: the list indexed under its TUID before it
  ovVisited,    \* applyOverlays: the ids of the bases applyOverlay was called on
  ovReturned,   \* applyOverlays: the index has been returned
  schedulesByTripId, \* mergeSchedules: the schedules kept, in insertion order
  mgTuid,       \* mergeSchedules: the position of the for-in loop over the TUIDs
  mgRead,       \* mergeSchedules: the number of schedules read from the index
  mgSeen,       \* mergeSchedules: the trip ids of the schedules read and not skipped
  mgSkipped,    \* mergeSchedules: the number of schedules skipped
  mgState,      \* mergeSchedules: "loop", "returned" or "thrown"
  mgOut,        \* mergeSchedules: the list returned
  mgError,      \* mergeSchedules: the trip id named by the error thrown
  stops,        \* loadSchedules: the StopTime list of the schedule being read
  prevRow,      \* loadSchedules: the row handled last ({} is undefined)
  departureHour, \* loadSchedules: the departure hour of the schedule being read
  schedules,    \* ScheduleBuilder.schedules: the schedules built so far
  loadState,    \* loadSchedules: "open", "resolved" or "rejected"
  rowCount,     \* the number of rows the stream has emitted
  travelStart,  \* the time on the clock of the current schedule's first public time
  travelNow,    \* the time since midnight of its start day of its last public time
  copyNext,     \* copyTrips: the position of the loop over the schedules
  stopTimesFile, \* copyTrips: per trip written, the rows written to stop_times.txt
  routes,       \* copyTrips: the routes by route hash, in insertion order
  tripsFile,    \* copyTrips: the trips written to trips.txt
  writtenShapes, \* copyTrips: the shape ids whose points are written
  shapesFile,   \* copyTrips: per shape written, the points written to shapes.txt
  routeFile,    \* copyTrips: the routes written to routes.txt
  copyDone,     \* copyTrips: the loop is over and routes.txt is written
  runState,     \* run: the await the command is at, "resolved" or "rejected"
  associationsP, \* run: the promise of getAssociations
  copies,       \* run: the state of the copy task of every file
  sinkRecords,  \* run: the number of records written to the sink of every file
  repositoryEnded, \* run: repository.end() was called
  outputEnded,  \* run: output.end() was called
  asThis,       \* Association.apply: the association applied
  asBase,       \* Association.apply: the base schedule
  asAssoc,      \* Association.apply: the associated schedule
  asNextId,     \* Association.apply: the next value of the id generator
  asApplied,    \* Association.apply: apply has returned
  asOut,        \* Association.apply: the schedules returned
  csRow,        \* createStop: the row it is given
  csStop, \* createStop: the StopTime it returns ({} before the call)
  hsOperator,   \* fillStopHeadsigns: the schedule's atoc_code
  hsStops,      \* fillStopHeadsigns: the schedule's StopTime list
  hsI,          \* fillStopHeadsigns: the loop index i (0-based)
  hsRule,       \* fillStopHeadsigns: the rule block evaluated next at index i
  hsViaText     \* fillStopHeadsigns: the via-text table, CRS -> entries

calVars == <<calThis, calOther, calOp, calArgs, calOverlap, calOut>>

ovVars == <<schedulesByTuid, ovCount, ovSeenOverlay, ovLast, ovBefore,
            ovVisited, ovReturned>>

mgVars == <<schedulesByTripId, mgTuid, mgRead, mgSeen, mgSkipped, mgState,
            mgOut, mgError>>

ldVars == <<stops, prevRow, departureHour, schedules, loadState, rowCount,
            travelStart, travelNow>>

cpVars == <<copyNext, stopTimesFile, routes, tripsFile, writtenShapes, shapesFile,
            routeFile, copyDone>>

runVars == <<runState, associationsP, copies, sinkRecords, repositoryEnded,
             outputEnded>>

asVars == <<asThis, asBase, asAssoc, asNextId, asApplied, asOut>>

stVars == <<csRow, csStop>>

hsVars == <<hsOperator, hsStops, hsI, hsRule, hsViaText>>

vars == <<calVars, ovVars, mgVars, ldVars, cpVars, runVars, asVars, stVars,
          hsVars>>

-----------------------------------------------------------------------------
(* Bounds of the model *)

\* dates range over 1..MaxDay
MaxDay == 5

\* the dates of the records given to applyOverlays range over 1..MaxOverlayDay
MaxOverlayDay == 3

\* the number of records in the list given to applyOverlays
MaxRecords == 3

\* the number of schedules in the index given to mergeSchedules
MaxSchedules == 4

\* the number of rows the schedule row stream emits
MaxRows == 3

\* a journey takes less than this many minutes from its first public time
MaxSpan == 720

\* the number of schedules in the list given to copyTrips
MaxTrips == 3

-----------------------------------------------------------------------------
(* ScheduleCalendar *)

Weekdays == 0..6

\* NO_DAYS, the all-zero remove mask
NO_DAYS == [i \in Weekdays |-> 0]

ALL_DAYS == [i \in Weekdays |-> 1]

\* moment.day(): 0 is Sunday
Weekday(d) == d % 7

Max(x, y) == IF x >= y THEN x ELSE y

Min(x, y) == IF x <= y THEN x ELSE y

\* new ScheduleCalendar(runsFrom, runsTo, days, excludeDays)
ScheduleCalendar(from, to, days, excl) ==
  [runsFrom |-> from, runsTo |-> to, days |-> days, excludeDays |-> excl]

\* binaryDays: the seven bits 0..6 concatenated MSB-first, read as a number
RECURSIVE BinaryFrom(_, _)
BinaryFrom(days, i) ==
  IF i > 6 THEN 0 ELSE days[i] * (2 ^ (6 - i)) + BinaryFrom(days, i + 1)

binaryDays(c) == BinaryFrom(c.days, 0)

\* the bitwise AND (&) of two non-negative numbers
RECURSIVE BitAnd(_, _)
BitAnd(x, y) ==
  IF x = 0 \/ y = 0 THEN 0
  ELSE (x % 2) * (y % 2) + 2 * BitAnd(x \div 2, y \div 2)

\* whether the calendar operates on day d: weekday on and not excluded
RunsOn(c, d) ==
  /\ c.runsFrom <= d
  /\ d <= c.runsTo
  /\ c.days[Weekday(d)] = 1
  /\ d \notin c.excludeDays

\* the shared-day generator: the days it yields from day d on, in order
RECURSIVE SharedFrom(_, _, _, _)
SharedFrom(a, b, d, end) ==
  IF d > end THEN << >>
  ELSE IF /\ a.days[Weekday(d)] = 1
          /\ b.days[Weekday(d)] = 1
          /\ d \notin a.excludeDays
          /\ d \notin b.excludeDays
       THEN <<d>> \o SharedFrom(a, b, d + 1, end)
       ELSE SharedFrom(a, b, d + 1, end)

\* mutant: the generator stops one day short of the later end
sharedDays_ExclusiveEnd(a, b) ==
  SharedFrom(a, b, Max(a.runsFrom, b.runsFrom), Min(a.runsTo, b.runsTo) - 1)

sharedDays(a, b) ==
  SharedFrom(a, b, Max(a.runsFrom, b.runsFrom), Min(a.runsTo, b.runsTo))

\* mutant: only the weekday masks are compared
getOverlap_MaskOnly(a, b) ==
  IF BitAnd(binaryDays(a), binaryDays(b)) = 0 THEN "None" ELSE "Short"

\* getOverlap: None when the masks are disjoint or no shared day is yielded
getOverlap(a, b) ==
  IF BitAnd(binaryDays(a), binaryDays(b)) = 0 THEN "None"
  ELSE IF Len(sharedDays(a, b)) > 0 THEN "Short"
  ELSE "None"

\* removeDays: the removed bits set to 0, the others keep their value
removeDays(days, remove) ==
  [i \in Weekdays |-> IF remove[i] = 1 THEN 0 ELSE days[i]]

\* clone's forward skip: while the weekday is off or the day is excluded,
\* within [start, end]
RECURSIVE SkipForward(_, _, _, _)
SkipForward(days, excl, start, end) ==
  IF start <= end /\ (days[Weekday(start)] = 0 \/ start \in excl)
  THEN SkipForward(days, excl, start + 1, end)
  ELSE start

\* clone's backward skip, symmetric
RECURSIVE SkipBackward(_, _, _, _)
SkipBackward(days, excl, start, end) ==
  IF end >= start /\ (days[Weekday(end)] = 0 \/ end \in excl)
  THEN SkipBackward(days, excl, start, end - 1)
  ELSE end

\* mutant: the end of the range is not moved back
clone_KeepEnd(c, start, end, remove, excl) ==
  LET days     == removeDays(c.days, remove)
      newStart == SkipForward(days, excl, start, end)
      newExcl  == {d \in excl : newStart <= d /\ d <= end}
  IN  IF newStart <= end
      THEN {ScheduleCalendar(newStart, end, days, newExcl)}
      ELSE {}

\* clone(start, end, removeDays, excludeDays): null ({}) when no operating
\* day is left in the range
clone(c, start, end, remove, excl) ==
  LET days     == removeDays(c.days, remove)
      newStart == SkipForward(days, excl, start, end)
      newEnd   == SkipBackward(days, excl, newStart, end)
      newExcl  == {d \in excl : newStart <= d /\ d <= newEnd}
  IN  IF newStart <= newEnd
      THEN {ScheduleCalendar(newStart, newEnd, days, newExcl)}
      ELSE {}

\* mutant: only the first shared day is excluded
addExcludeDays_FirstOnly(c, o) ==
  LET shared == sharedDays(c, o)
      excl   == c.excludeDays \cup {shared[i] : i \in 1..Min(1, Len(shared))}
  IN  clone(c, c.runsFrom, c.runsTo, NO_DAYS, excl)

\* addExcludeDays: every shared day goes into a copy of the exclusion set
addExcludeDays(c, o) ==
  LET shared == sharedDays(c, o)
      excl   == c.excludeDays \cup {shared[i] : i \in 1..Len(shared)}
  IN  clone(c, c.runsFrom, c.runsTo, NO_DAYS, excl)

\* shiftForward: every date one day later, the mask rotated Sunday -> Monday
shiftForward(c) ==
  ScheduleCalendar(c.runsFrom + 1, c.runsTo + 1,
                   [i \in Weekdays |-> c.days[(i + 6) % 7]],
                   {d + 1 : d \in c.excludeDays})

\* mutant: the dates move back but the mask is not rotated
shiftBackward_NoRotate(c) ==
  ScheduleCalendar(c.runsFrom - 1, c.runsTo - 1, c.days,
                   {d - 1 : d \in c.excludeDays})

\* shiftBackward: every date one day earlier, the mask rotated Monday -> Sunday
shiftBackward(c) ==
  ScheduleCalendar(c.runsFrom - 1, c.runsTo - 1,
                   [i \in Weekdays |-> c.days[(i + 1) % 7]],
                   {d - 1 : d \in c.excludeDays})

-----------------------------------------------------------------------------
(* The calendars the row stream supplies *)

Days(on) == [i \in Weekdays |-> IF i \in on THEN 1 ELSE 0]

\* the weekday masks of the model: every day; Monday + Friday; Monday,
\* Wednesday, Friday + Saturday; Tuesday only; the weekend
MaskSet == {ALL_DAYS, Days({1, 5}), Days({1, 3, 5, 6}), Days({2}), Days({0, 6})}

\* the dates a calendar of the model may touch (shifts move one day out)
DateRange == 0..(MaxDay + 1)

\* a calendar as createSchedule builds it from a row: runs_from <= runs_to,
\* any mask, no exclusion
RawCalendars ==
  {c \in [runsFrom : 1..MaxDay, runsTo : 1..MaxDay, days : MaskSet,
          excludeDays : {{}}] : c.runsFrom <= c.runsTo}

\* a calendar as addExcludeDays returns it: it operates on its first and its
\* last day and excludes one operating weekday strictly inside its range
ExcludedCalendars ==
  {c \in [runsFrom : 1..MaxDay, runsTo : 1..MaxDay, days : MaskSet,
          excludeDays : {{d} : d \in 1..MaxDay}] :
     /\ c.days[Weekday(c.runsFrom)] = 1
     /\ c.days[Weekday(c.runsTo)] = 1
     /\ \A d \in c.excludeDays :
          c.runsFrom < d /\ d < c.runsTo /\ c.days[Weekday(d)] = 1}

\* the calendars handed to the operations
Calendars == RawCalendars \cup ExcludedCalendars

\* the days on which a calendar operates
OperatingDays(c) == {d \in DateRange : RunsOn(c, d)}

NoArgs == [start |-> 0, end |-> 0, remove |-> NO_DAYS, excl |-> {}]

\* the state of applyOverlays on entry: an empty index
OvStart ==
  /\ schedulesByTuid = [t \in {"A", "B"} |-> << >>]
  /\ ovCount = 0
  /\ ovSeenOverlay = FALSE
  /\ ovLast = {}
  /\ ovBefore = << >>
  /\ ovVisited = {}
  /\ ovReturned = FALSE

\* the state of mergeSchedules on entry: nothing kept yet
MgStart ==
  /\ schedulesByTripId = << >>
  /\ mgTuid = 1
  /\ mgRead = 0
  /\ mgSeen = << >>
  /\ mgSkipped = 0
  /\ mgState = "loop"
  /\ mgOut = << >>
  /\ mgError = {}

\* the files that run writes with copy
ArrayFiles == {"feed_info.txt", "agency.txt"}

QueryFiles == {"transfers.txt", "stops.txt", "links.txt"}

CalendarFiles == {"calendar.txt", "calendar_dates.txt"}

Files == ArrayFiles \cup QueryFiles \cup CalendarFiles

\* the state of run once it has started its queries and its first copy
\* tasks and waits for the associations
RunStart ==
  /\ runState = "awaitAssociations"
  /\ associationsP = "pending"
  /\ copies = [f \in Files |-> IF f \in CalendarFiles THEN "idle" ELSE "awaiting"]
  /\ sinkRecords = [f \in Files |-> 0]
  /\ repositoryEnded = FALSE
  /\ outputEnded = FALSE

\* the state before fillStopHeadsigns is called
HsStart ==
  /\ hsOperator = ""
  /\ hsStops = << >>
  /\ hsI = 0
  /\ hsRule = "-"
  /\ hsViaText = << >>

\* the state before createStop is called
StStart ==
  /\ csRow = << >>
  /\ csStop = {}

\* the state before Association.apply is called
AsStart ==
  /\ asThis = << >>
  /\ asBase = << >>
  /\ asAssoc = << >>
  /\ asNextId = 0
  /\ asApplied = FALSE
  /\ asOut = << >>

\* the state of loadSchedules on entry, and of copyTrips before its loop
LdStart ==
  /\ stops = << >>
  /\ prevRow = {}
  /\ departureHour = 4
  /\ schedules = << >>
  /\ loadState = "open"
  /\ rowCount = 0
  /\ travelStart = {}
  /\ travelNow = {}
  /\ copyNext = 1
  /\ stopTimesFile = << >>
  /\ routes = << >>
  /\ tripsFile = << >>
  /\ writtenShapes = {}
  /\ shapesFile = << >>
  /\ routeFile = << >>
  /\ copyDone = FALSE

CalInit ==
  /\ HsStart
  /\ OvStart
  /\ MgStart
  /\ LdStart
  /\ RunStart
  /\ AsStart
  /\ StStart
  /\ calThis \in Calendars
  /\ calOther \in Calendars
  /\ calOp = "new"
  /\ calArgs = NoArgs
  /\ calOverlap = "-"
  /\ calOut = {}

\* calThis.getOverlap(calOther)
GetOverlap ==
  /\ calOp' = "getOverlap"
  /\ calOverlap' = getOverlap(calThis, calOther)
  /\ calOut' = {}
  /\ calArgs' = NoArgs
  /\ UNCHANGED <<calThis, calOther, ovVars, mgVars, ldVars, cpVars,
                 runVars, asVars, stVars, hsVars>>

\* calThis.addExcludeDays(calOther)
AddExcludeDays ==
  /\ calOp' = "addExcludeDays"
  /\ calOut' = addExcludeDays(calThis, calOther)
  /\ calOverlap' = "-"
  /\ calArgs' = NoArgs
  /\ UNCHANGED <<calThis, calOther, ovVars, mgVars, ldVars, cpVars,
                 runVars, asVars, stVars, hsVars>>

\* calThis.clone(start, end, removeDays, excludeDays) with the arguments of
\* Association.mergeSchedules (the later start, the earlier end, both
\* exclusion sets), and with NO_DAYS or the other calendar's mask removed
Clone ==
  \E remove \in {NO_DAYS, calOther.days} :
    LET start == Max(calOther.runsFrom, calThis.runsFrom)
        end   == Min(calOther.runsTo, calThis.runsTo)
        excl  == calThis.excludeDays \cup calOther.excludeDays
    IN  /\ calOp' = "clone"
        /\ calArgs' = [start |-> start, end |-> end, remove |-> remove, excl |-> excl]
        /\ calOut' = clone(calThis, start, end, remove, excl)
        /\ calOverlap' = "-"
        /\ UNCHANGED <<calThis, calOther, ovVars, mgVars, ldVars, cpVars,
                 runVars, asVars, stVars, hsVars>>

\* calThis.shiftForward()
ShiftForward ==
  /\ calOp' = "shiftForward"
  /\ calOut' = {shiftForward(calThis)}
  /\ calOverlap' = "-"
  /\ calArgs' = NoArgs
  /\ UNCHANGED <<calThis, calOther, ovVars, mgVars, ldVars, cpVars,
                 runVars, asVars, stVars, hsVars>>

\* calThis.shiftBackward()
ShiftBackward ==
  /\ calOp' = "shiftBackward"
  /\ calOut' = {shiftBackward(calThis)}
  /\ calOverlap' = "-"
  /\ calArgs' = NoArgs
  /\ UNCHANGED <<calThis, calOther, ovVars, mgVars, ldVars, cpVars,
                 runVars, asVars, stVars, hsVars>>

CalNext ==
  \/ GetOverlap
  \/ AddExcludeDays
  \/ Clone
  \/ ShiftForward
  \/ ShiftBackward

SpecCalendar == CalInit /\ [][CalNext]_vars

-----------------------------------------------------------------------------
(* applyOverlays *)

TUIDs == {"A", "B"}

STP == {"P", "O", "N", "C"}

\* the calendars of the records given to applyOverlays
OverlayCalendars ==
  {c \in [runsFrom : 1..MaxOverlayDay, runsTo : 1..MaxOverlayDay,
          days : {ALL_DAYS, Days({1, 3})}, excludeDays : {{}}] :
     c.runsFrom <= c.runsTo}

\* OverlayRecord
OverlayRecord(id, tuid, stp, calendar) ==
  [id |-> id, tuid |-> tuid, stp |-> stp, calendar |-> calendar]

\* OverlayRecord.clone(calendar, id): every other field is kept
cloneRecord(rec, calendar, id) == [rec EXCEPT !.calendar = calendar, !.id = id]

\* applyOverlay(base, overlay): the base itself without overlap, else the base
\* cloned with the shared days excluded, null ({}) when no day is left
applyOverlay(base, overlay) ==
  IF getOverlap(base.calendar, overlay.calendar) = "None" THEN {base}
  ELSE {cloneRecord(base, newCalendar, base.id) :
          newCalendar \in addExcludeDays(base.calendar, overlay.calendar)}

\* Array.prototype.splice(i, 1, ...items) on a 1-based sequence
Splice(list, i, items) ==
  SubSeq(list, 1, i - 1) \o items \o SubSeq(list, i + 1, Len(list))

\* a nullable record as the list of spread arguments of splice
Spread(nullable) ==
  IF nullable = {} THEN << >> ELSE <<CHOOSE r \in nullable : TRUE>>

\* the inner for-of loop of applyOverlays over the TUID's list: the array
\* iterator reads list[i] of the live array and moves on to i + 1, while the
\* body splices the list at the base's index
RECURSIVE OverlayLoop(_, _, _, _)
OverlayLoop(list, i, schedule, visited) ==
  IF i > Len(list) THEN [list |-> list, visited |-> visited]
  ELSE LET baseSchedule == list[i]
           overlay      == applyOverlay(baseSchedule, schedule)
       IN  OverlayLoop(Splice(list, i, Spread(overlay)), i + 1, schedule,
                       visited \cup {baseSchedule.id})

\* the body of the outer loop of applyOverlays for one input record
ApplyStep(index, schedule) ==
  LET list   == index[schedule.tuid]
      looped == IF schedule.stp # "P"
                THEN OverlayLoop(list, 1, schedule, {})
                ELSE [list |-> list, visited |-> {}]
      pushed == IF schedule.stp # "C"
                THEN Append(looped.list, schedule)
                ELSE looped.list
  IN  [index |-> [index EXCEPT ![schedule.tuid] = pushed],
       visited |-> looped.visited]

OvInit ==
  /\ HsStart
  /\ OvStart
  /\ MgStart
  /\ LdStart
  /\ RunStart
  /\ AsStart
  /\ StStart
  /\ calThis = ScheduleCalendar(1, 1, ALL_DAYS, {})
  /\ calOther = ScheduleCalendar(1, 1, ALL_DAYS, {})
  /\ calOp = "new"
  /\ calArgs = NoArgs
  /\ calOverlap = "-"
  /\ calOut = {}

\* one iteration of the outer loop: the next record of the input list.  The
\* list is sorted Permanent first, its ids grow, and the Permanent records of
\* a TUID do not overlap each other.
ApplyOverlaysStep ==
  /\ ~ovReturned
  /\ ovCount < MaxRecords
  /\ \E tuid \in TUIDs, stp \in STP, calendar \in OverlayCalendars :
       LET schedule == OverlayRecord(ovCount + 1, tuid, stp, calendar)
           step     == ApplyStep(schedulesByTuid, schedule)
       IN  /\ stp = "P" => ~ovSeenOverlay
           /\ stp = "P" =>
                \A i \in 1..Len(schedulesByTuid[tuid]) :
                  getOverlap(schedulesByTuid[tuid][i].calendar, calendar) = "None"
           /\ schedulesByTuid' = step.index
           /\ ovVisited' = step.visited
           /\ ovBefore' = schedulesByTuid[tuid]
           /\ ovLast' = {schedule}
           /\ ovSeenOverlay' = (ovSeenOverlay \/ stp # "P")
           /\ ovCount' = ovCount + 1
  /\ UNCHANGED <<ovReturned, calVars, mgVars, ldVars, cpVars,
                 runVars, asVars, stVars, hsVars>>

\* the end of the input list: return schedulesByTuid
ApplyOverlaysReturn ==
  /\ ~ovReturned
  /\ ovReturned' = TRUE
  /\ UNCHANGED <<schedulesByTuid, ovCount, ovSeenOverlay, ovLast, ovBefore,
                 ovVisited, calVars, mgVars, ldVars, cpVars,
                 runVars, asVars, stVars, hsVars>>

OvNext ==
  \/ ApplyOverlaysStep
  \/ ApplyOverlaysReturn

SpecOverlay == OvInit /\ [][OvNext]_vars

-----------------------------------------------------------------------------
(* mergeSchedules: the schedule flattener *)

\* the trip ids of the model, "{tuid}_{runsFrom}_{runsTo}"
TripIds == {"A_1_2", "A_2_3", "B_1_2"}

\* a stop without public call, and stops with an arrival or a departure only
PassingStop == [arrival_time |-> {}, departure_time |-> {}]

ArrivalStop == [arrival_time |-> {600}, departure_time |-> {}]

DepartureStop == [arrival_time |-> {}, departure_time |-> {630}]

\* the stop lists of the schedules of the index
StopLists ==
  {<< >>, <<PassingStop>>, <<PassingStop, ArrivalStop>>,
   <<DepartureStop, PassingStop>>}

\* the order in which for-in visits the TUIDs of the index
TuidOrder == <<"A", "B">>

\* stopTimes.find(item => item.departure_time !== null
\*                        || item.arrival_time !== null) !== undefined
HasPublicCall(stopTimes) ==
  \E i \in 1..Len(stopTimes) :
    stopTimes[i].departure_time # {} \/ stopTimes[i].arrival_time # {}

\* schedulesByTripId[tripId] !== undefined
HasTripId(byTripId, tripId) ==
  \E i \in 1..Len(byTripId) : byTripId[i].tripId = tripId

\* schedulesByTripId[tripId] = schedule: a new key goes last, a present key
\* keeps its place
PutTripId(byTripId, schedule) ==
  IF HasTripId(byTripId, schedule.tripId)
  THEN [i \in 1..Len(byTripId) |->
          IF byTripId[i].tripId = schedule.tripId THEN schedule ELSE byTripId[i]]
  ELSE Append(byTripId, schedule)

\* mutant: a duplicate trip id overwrites the schedule kept before
MergeBody_Overwrite(byTripId, schedule) ==
  IF ~HasPublicCall(schedule.stopTimes)
  THEN [outcome |-> "continue", byTripId |-> byTripId]
  ELSE [outcome |-> "kept", byTripId |-> PutTripId(byTripId, schedule)]

\* the body of the inner loop of mergeSchedules for one schedule
MergeBody(byTripId, schedule) ==
  IF ~HasPublicCall(schedule.stopTimes)
  THEN [outcome |-> "continue", byTripId |-> byTripId]
  ELSE IF HasTripId(byTripId, schedule.tripId)
  THEN [outcome |-> "throw", byTripId |-> byTripId]
  ELSE [outcome |-> "kept", byTripId |-> PutTripId(byTripId, schedule)]

\* the schedules of the index
IndexSchedules == [tripId : TripIds, stopTimes : StopLists]

MgInit ==
  /\ HsStart
  /\ OvStart
  /\ MgStart
  /\ LdStart
  /\ RunStart
  /\ AsStart
  /\ StStart
  /\ calThis = ScheduleCalendar(1, 1, ALL_DAYS, {})
  /\ calOther = ScheduleCalendar(1, 1, ALL_DAYS, {})
  /\ calOp = "new"
  /\ calArgs = NoArgs
  /\ calOverlap = "-"
  /\ calOut = {}

\* the inner loop reads the next schedule of the current TUID's list: it has
\* no public call and is skipped
MergeSkip ==
  /\ mgState = "loop"
  /\ mgRead < MaxSchedules
  /\ \E schedule \in IndexSchedules :
       /\ MergeBody(schedulesByTripId, schedule).outcome = "continue"
       /\ mgRead' = mgRead + 1
       /\ mgSkipped' = mgSkipped + 1
  /\ UNCHANGED <<schedulesByTripId, mgTuid, mgSeen, mgState, mgOut, mgError,
                 calVars, ovVars, ldVars, cpVars,
                 runVars, asVars, stVars, hsVars>>

\* the inner loop reads the next schedule: its trip id is new and it is kept
MergeKeep ==
  /\ mgState = "loop"
  /\ mgRead < MaxSchedules
  /\ \E schedule \in IndexSchedules :
       LET body == MergeBody(schedulesByTripId, schedule)
       IN  /\ body.outcome = "kept"
           /\ schedulesByTripId' = body.byTripId
           /\ mgSeen' = Append(mgSeen, schedule.tripId)
           /\ mgRead' = mgRead + 1
  /\ UNCHANGED <<mgTuid, mgSkipped, mgState, mgOut, mgError, calVars, ovVars, ldVars, cpVars,
                 runVars, asVars, stVars, hsVars>>

\* the inner loop reads the next schedule: its trip id is already kept and
\* the error naming it is thrown
MergeThrow ==
  /\ mgState = "loop"
  /\ mgRead < MaxSchedules
  /\ \E schedule \in IndexSchedules :
       LET body == MergeBody(schedulesByTripId, schedule)
       IN  /\ body.outcome = "throw"
           /\ schedulesByTripId' = body.byTripId
           /\ mgSeen' = Append(mgSeen, schedule.tripId)
           /\ mgRead' = mgRead + 1
           /\ mgError' = {schedule.tripId}
           /\ mgState' = "thrown"
  /\ UNCHANGED <<mgTuid, mgSkipped, mgOut, calVars, ovVars, ldVars, cpVars,
                 runVars, asVars, stVars, hsVars>>

\* the list of the current TUID is exhausted: for-in moves to the next TUID
MergeNextTuid ==
  /\ mgState = "loop"
  /\ mgTuid < Len(TuidOrder)
  /\ mgTuid' = mgTuid + 1
  /\ UNCHANGED <<schedulesByTripId, mgRead, mgSeen, mgSkipped, mgState, mgOut,
                 mgError, calVars, ovVars, ldVars, cpVars,
                 runVars, asVars, stVars, hsVars>>

\* the last TUID is exhausted: return Object.values(schedulesByTripId)
MergeReturn ==
  /\ mgState = "loop"
  /\ mgTuid = Len(TuidOrder)
  /\ mgOut' = schedulesByTripId
  /\ mgState' = "returned"
  /\ UNCHANGED <<schedulesByTripId, mgTuid, mgRead, mgSeen, mgSkipped, mgError,
                 calVars, ovVars, ldVars, cpVars,
                 runVars, asVars, stVars, hsVars>>

MgNext ==
  \/ MergeSkip
  \/ MergeKeep
  \/ MergeThrow
  \/ MergeNextTuid
  \/ MergeReturn

SpecFlatten == MgInit /\ [][MgNext]_vars

-----------------------------------------------------------------------------
(* ScheduleBuilder.loadSchedules *)

(* A time "HH:MM:SS" is the number of minutes since midnight: its first two  *)
(* characters read as a number are t \div 60, and the text with 24 added to  *)
(* the hour is t + 1440.  A nullable time is a set holding at most one time. *)
(* A null CRS is the string "null".  An activity text, a stop id and an RSID  *)
(* are sequences of characters.                                              *)

MinutesPerDay == 1440

\* parseInt(time.substr(0, 2), 10)
HourOf(time) == time \div 60

pickupActivities == {<<"T", " ">>, <<"T", "B">>, <<"T", "F">>, <<"U", " ">>}

dropOffActivities == {<<"T", " ">>, <<"T", "B">>, <<"T", "F">>, <<"D", " ">>}

coordinatedActivity == {<<"R", " ">>}

notAdvertised == <<"N", " ">>

\* (row.activity ?? '').match(/.{1,2}/g) || []: the text cut into codes of two
\* characters, the last code of a text of odd length having one character
RECURSIVE SplitCodes(_)
SplitCodes(text) ==
  IF Len(text) = 0 THEN << >>
  ELSE IF Len(text) = 1 THEN <<text>>
  ELSE <<SubSeq(text, 1, 2)>> \o SplitCodes(SubSeq(text, 3, Len(text)))

routeTypeIndex ==
  [OO |-> "Rail", XX |-> "Rail", XZ |-> "Rail", BR |-> "ReplacementBus",
   BS |-> "Bus", OL |-> "Subway", XC |-> "Rail", SS |-> "Ferry"]

\* the agency catalogue (config/gtfs/agency): the operators of tocData that
\* the row streams of the model use, and one operator that tocData lacks
agencies == {<<"=", code>> : code \in {"GW", "LM", "LE", "LO", "ME", "NY", "ZZ"}}

\* activities.includes(a)
Includes(activities, a) == \E i \in 1..Len(activities) : activities[i] = a

\* a alone, whether null or not
OrElse_First(a, b) == a

\* a || b on nullable times
OrElse(a, b) == IF a # {} THEN a ELSE b

\* formatTime: 24 hours are added when the schedule started at or after 4am
\* and after this stop's hour
formatTime(time, originDepartureHour) ==
  {IF originDepartureHour >= 4 /\ originDepartureHour > HourOf(t)
   THEN t + MinutesPerDay
   ELSE t : t \in time}

\* createStop(row, stopId, departHour)
createStop(row, stopId, departHour) ==
  LET public        == row.public_arrival_time # {} \/ row.public_departure_time # {}
      arrivalTime   == IF public THEN formatTime(row.public_arrival_time, departHour)
                       ELSE {}
      departureTime == IF public THEN formatTime(row.public_departure_time, departHour)
                       ELSE {}
      activities    == SplitCodes(row.activity)
      hidden        == Includes(activities, notAdvertised)
      pickup        == IF (\E a \in pickupActivities : Includes(activities, a)) /\ ~hidden
                       THEN 0 ELSE 1
      coordinated   == IF \E a \in coordinatedActivity : Includes(activities, a)
                       THEN 3 ELSE 0
      dropOff       == IF (\E a \in dropOffActivities : Includes(activities, a)) /\ ~hidden
                       THEN 0 ELSE 1
  IN  [arrival_time   |-> IF hidden THEN {} ELSE OrElse(arrivalTime, departureTime),
       departure_time |-> IF hidden THEN {} ELSE OrElse(departureTime, arrivalTime),
       stop_id        |-> row.atco_code,
       stop_code      |-> row.crs_code,
       tiploc_code    |-> row.location,
       stop_sequence  |-> stopId,
       pickup_type    |-> IF coordinated # 0 THEN coordinated ELSE pickup,
       drop_off_type  |-> IF coordinated # 0 THEN coordinated ELSE dropOff]

\* createSchedule(row, stops)
createSchedule(row, stopTimes) ==
  LET mode == IF row.train_category \in DOMAIN routeTypeIndex
              THEN routeTypeIndex[row.train_category] ELSE "Rail"
  IN  [id |-> row.id, stp |-> row.stp_indicator, stopTimes |-> stopTimes,
       tuid |-> row.train_uid, rsid |-> row.retail_train_id, mode |-> mode,
       operator |-> IF \E a \in agencies : a = <<"=", row.atoc_code>>
                    THEN row.atoc_code ELSE "ZZ"]

\* the departure hour read from the first row of a schedule
EntryHour(row) ==
  IF row.public_arrival_time # {}
  THEN HourOf(CHOOSE t \in row.public_arrival_time : TRUE)
  ELSE IF row.public_departure_time # {}
  THEN HourOf(CHOOSE t \in row.public_departure_time : TRUE)
  ELSE 4

\* prevRow && prevRow.id !== row.id
EntersSchedule(prev, row) == \E p \in prev : p.id # row.id

\* mutant: the schedule ids are not compared
SameCall_CrsOnly(prev, row) == \E p \in prev : row.crs_code = p.crs_code

\* prevRow && prevRow.id === row.id && row.crs_code === prevRow.crs_code
SameCall(prev, row) == \E p \in prev : p.id = row.id /\ row.crs_code = p.crs_code

\* the "result" handler of loadSchedules
OnResult(row) ==
  LET entered    == EntersSchedule(prevRow, row)
      built      == IF entered
                    THEN Append(schedules,
                                createSchedule(CHOOSE p \in prevRow : TRUE, stops))
                    ELSE schedules
      kept       == IF entered THEN << >> ELSE stops
      hour       == IF entered THEN EntryHour(row) ELSE departureHour
      stop       == createStop(row, Len(kept) + 1, hour)
      replaced   == IF Len(kept) = 0 THEN kept
                    ELSE [kept EXCEPT ![Len(kept)] =
                            [stop EXCEPT !.stop_sequence = Len(kept)]]
  IN  /\ loadState = "open"
      /\ schedules' = built
      /\ departureHour' = hour
      /\ stops' = IF row.stp_indicator = "C" THEN kept
                  ELSE IF SameCall(prevRow, row)
                  THEN IF stop.pickup_type = 0 \/ stop.drop_off_type = 0
                       THEN replaced
                       ELSE kept
                  ELSE Append(kept, stop)
      /\ prevRow' = {row}
      /\ rowCount' = rowCount + 1
      /\ UNCHANGED loadState

\* the "end" handler of loadSchedules
OnEnd ==
  /\ loadState = "open"
  /\ schedules' = IF prevRow # {}
                  THEN Append(schedules,
                              createSchedule(CHOOSE p \in prevRow : TRUE, stops))
                  ELSE schedules
  /\ loadState' = "resolved"
  /\ UNCHANGED <<stops, prevRow, departureHour, rowCount, travelStart, travelNow,
                 cpVars, calVars, ovVars, mgVars,
                 runVars, asVars, stVars, hsVars>>

\* the "error" handler of loadSchedules: reject
OnError ==
  /\ loadState = "open"
  /\ loadState' = "rejected"
  /\ UNCHANGED <<stops, prevRow, departureHour, schedules, rowCount, travelStart,
                 travelNow, cpVars, calVars, ovVars, mgVars,
                 runVars, asVars, stVars, hsVars>>

\* the rows of a stream follow (stp_indicator DESC, id, stop_id): the rows of a
\* schedule are contiguous and share its stp_indicator, and the ids grow
FollowsStream(row) ==
  /\ rowCount < MaxRows
  /\ prevRow = {} => row.id = 1
  /\ \A p \in prevRow :
       \/ row.id = p.id /\ row.stp_indicator = p.stp_indicator
       \/ row.id = p.id + 1

LdInit ==
  /\ HsStart
  /\ OvStart
  /\ MgStart
  /\ LdStart
  /\ RunStart
  /\ AsStart
  /\ StStart
  /\ calThis = ScheduleCalendar(1, 1, ALL_DAYS, {})
  /\ calOther = ScheduleCalendar(1, 1, ALL_DAYS, {})
  /\ calOp = "new"
  /\ calArgs = NoArgs
  /\ calOverlap = "-"
  /\ calOut = {}

-----------------------------------------------------------------------------
(* OutputGTFSCommand.copyTrips: the rows of stop_times.txt *)

\* r.stop_code !== null && (r.departure_time != null || r.arrival_time != null)
IsPublicStop(r) ==
  r.stop_code # "null" /\ (r.departure_time # {} \/ r.arrival_time # {})

\* the row written for a stop: the stop without stop_code and tiploc_code
StopTimeRow(r) ==
  [arrival_time |-> r.arrival_time, departure_time |-> r.departure_time,
   stop_id |-> r.stop_id, stop_sequence |-> r.stop_sequence, pickup_type |-> r.pickup_type,
   drop_off_type |-> r.drop_off_type]

\* .map((r, index) => Object.assign(r, {stop_sequence: index})): the stops
\* kept by the filter, renumbered by their index in the filtered list
Renumbered(stopTimes) ==
  LET public == SelectSeq(stopTimes, IsPublicStop)
  IN  [k \in 1..Len(public) |-> [public[k] EXCEPT !.stop_sequence = k - 1]]

\* the number of public stops among the first i stops
RECURSIVE PublicBefore(_, _)
PublicBefore(stopTimes, i) ==
  IF i = 0 THEN 0
  ELSE PublicBefore(stopTimes, i - 1) + (IF IsPublicStop(stopTimes[i]) THEN 1 ELSE 0)

\* Object.assign changes the stop objects of the schedule in place: the stop
\* list of the schedule after its rows are written
AssignedInPlace(stopTimes) ==
  [i \in 1..Len(stopTimes) |->
     IF IsPublicStop(stopTimes[i])
     THEN [stopTimes[i] EXCEPT !.stop_sequence = PublicBefore(stopTimes, i) - 1]
     ELSE stopTimes[i]]

-----------------------------------------------------------------------------
(* Schedule.toRoute, Schedule.toTrip, Schedule.toShape and getShapeId *)

(* A text is a sequence of pieces: a name of tocData is one piece, a name    *)
(* of a stop is the sequence of its words, an RSID and a stop id are the     *)
(* sequences of their characters.  Concatenation is \o.  A nullable text is  *)
(* a set holding at most one text.                                           *)

\* the stop names of the repository (getFullStopName): the stop id <<"J">>
\* has none
StopNames ==
  [id \in {<<"X">>, <<"Y">>, <<"X", "Y">>, <<"9", "1", "0", "0", "SUTTON">>,
           <<"9", "1", "0", "0", "BLFR">>, <<"9", "1", "0", "0", "HUDDSFD">>,
           <<"9", "1", "0", "0", "BRGHOUS">>} |->
     IF id = <<"X">> THEN <<"London", "Euston", "(Main)">>
     ELSE IF id = <<"9", "1", "0", "0", "HUDDSFD">> THEN <<"Huddersfield">>
     ELSE IF id = <<"9", "1", "0", "0", "BRGHOUS">> THEN <<"Brighouse">>
     ELSE IF id = <<"Y">> THEN <<"Stansted Airport">>
     ELSE IF id = <<"9", "1", "0", "0", "SUTTON">> THEN <<"Sutton", "(Surrey)">>
     ELSE IF id = <<"9", "1", "0", "0", "BLFR">> THEN <<"London", "Blackfriars">>
     ELSE <<"Shoreditch">>]

\* the stop ids that findStopById or tiplocCoordinates give coordinates for
KnownCoordinates == {<<"X">>, <<"Y">>}

\* a word that the pattern / \(.*\)$/ matches at the end of a name
IsBracketed(word) == word \in {"(Main)", "(Surrey)"}

\* CIFRepository.getStopName: the full name without its bracketed ending
getStopName(stop_id) ==
  IF stop_id \notin DOMAIN StopNames THEN {}
  ELSE LET longName == StopNames[stop_id]
       IN  IF \E i \in 1..Len(longName) : longName[i] = "MAESTEG"
           THEN {longName}
           ELSE IF IsBracketed(longName[Len(longName)])
           THEN {SubSeq(longName, 1, Len(longName) - 1)}
           ELSE {longName}

\* routeLongName.includes(element)
NameIncludes(name, element) == \E i \in 1..Len(name) : name[i] = element

\* Schedule.origin and Schedule.destination
origin(schedule) == schedule.stopTimes[1].stop_id

destination(schedule) == schedule.stopTimes[Len(schedule.stopTimes)].stop_id

\* Schedule.stopAtStation(station) !== undefined
stopAtStation(schedule, station) ==
  \E i \in 1..Len(schedule.stopTimes) : schedule.stopTimes[i].stop_code = station

\* the rows of tocData for the operators of the agency catalogue
tocData ==
  [GW |-> [name |-> <<"GWR">>, long_name |-> {<<"Great Western Railway">>},
           colour |-> {674110}],
   LE |-> [name |-> <<"Greater Anglia">>, long_name |-> {}, colour |-> {14091304}],
   LM |-> [name |-> <<"WMT">>, long_name |-> {<<"West Midlands Trains">>},
           colour |-> {}],
   LO |-> [name |-> <<"Overground">>, long_name |-> {<<"London Overground">>},
           colour |-> {16741656}],
   ME |-> [name |-> <<"Merseyrail">>, long_name |-> {}, colour |-> {16773632}],
   ZZ |-> [name |-> <<"Other operator">>, long_name |-> {}, colour |-> {}]]

NameAndColour(route_id, name, long_name, colour) ==
  [route_id |-> route_id, name |-> name, long_name |-> long_name, colour |-> colour]

\* Schedule.getNameAndColourWithoutBusSuffix
getNameAndColourWithoutBusSuffix(schedule, routeLongName) ==
  LET rsid   == IF schedule.rsid # {}
                THEN LET r == CHOOSE r \in schedule.rsid : TRUE
                     IN  SubSeq(r, 1, Min(6, Len(r)))
                ELSE <<schedule.tuid>>
      prefix == schedule.operator
      calls(stations) == \E st \in stations : stopAtStation(schedule, st)
  IN  IF prefix = "LM"
      THEN IF \E e \in {"Euston", "Watford Junction", "Tring", "Bletchley",
                        "Milton Keynes", "Northampton", "St Albans", "Bedford",
                        "Liverpool", "Crewe"} : NameIncludes(routeLongName, e)
           THEN NameAndColour(<<"LN">>, <<"LNR">>,
                              {<<"London Northwestern Railway">>}, {49007})
           ELSE NameAndColour(<<"WM">>, <<"WMR">>,
                              {<<"West Midlands Railway">>}, {14710537})
      ELSE IF prefix = "LE" /\ \A e \in {"London", "Stansted Airport"} :
                                  NameIncludes(routeLongName, e)
      THEN NameAndColour(<<"SX">>, <<"Stansted Express">>, {}, {7041402})
      ELSE IF prefix = "LO"
              /\ calls({"SDC", "ZCW", "SQE", "NXG", "NWX", "SYD", "WCY", "CYP"})
      THEN NameAndColour(<<"LO_Windrush">>, <<"Windrush line">>, {}, {15682910})
      ELSE IF prefix = "LO"
              /\ calls({"LST", "HAC", "SKW", "EDR", "ENF", "CHN", "WST", "CHI"})
      THEN NameAndColour(<<"LO_Weaver">>, <<"Weaver line">>, {}, {9906273})
      ELSE IF prefix = "LO" /\ calls({"RMF", "UPM"})
      THEN NameAndColour(<<"LO_Liberty">>, <<"Liberty line">>, {}, {6776679})
      ELSE IF prefix = "LO"
              /\ calls({"KPA", "SPB", "RMD", "SAT", "HDH", "CMD", "HKC", "SRA"})
      THEN NameAndColour(<<"LO_Mildmay">>, <<"Mildmay line">>, {}, {4423361})
      ELSE IF prefix = "LO" /\ calls({"EUS", "KBN", "SBP", "HRW", "WFH", "WFJ"})
      THEN NameAndColour(<<"LO_Lioness">>, <<"Lioness line">>, {}, {15840284})
      ELSE IF prefix = "LO" /\ calls({"HRY", "WMW", "LER", "BKG"})
      THEN NameAndColour(<<"LO_Suffragette">>, <<"Suffragette line">>, {}, {3783034})
      ELSE IF prefix = "ME"
              /\ calls({"HNX", "LPY", "SDL", "BAH", "HLR", "SOP", "KKD", "WAO",
                        "MAG", "OMS", "RIL", "KIR", "HBL"})
      THEN NameAndColour(<<"ME_Northern">>, <<"Northern line">>, {}, {157362})
      ELSE IF prefix = "ME"
              /\ calls({"BKQ", "NBN", "BID", "WKI", "RFY", "PSL", "HOO", "ELP", "CTR"})
      THEN NameAndColour(<<"ME_Wirral">>, <<"Wirral line">>, {}, {43343})
      ELSE IF prefix \in DOMAIN tocData
      THEN NameAndColour(<<prefix>>, tocData[prefix].name, tocData[prefix].long_name,
                         tocData[prefix].colour)
      ELSE NameAndColour(<<prefix>>, rsid, {}, {})

\* Schedule.getNameAndColour: "_BUS" is appended for a replacement bus
getNameAndColour(schedule, routeLongName) ==
  LET result == getNameAndColourWithoutBusSuffix(schedule, routeLongName)
  IN  IF schedule.mode = "ReplacementBus"
      THEN [result EXCEPT !.route_id = result.route_id \o <<"_BUS">>]
      ELSE result

HexDigits ==
  <<"0", "1", "2", "3", "4", "5", "6", "7", "8", "9", "a", "b", "c", "d", "e", "f">>

\* Number.prototype.toString(16)
RECURSIVE ToHex(_)
ToHex(n) ==
  IF n < 16 THEN <<HexDigits[n + 1]>>
  ELSE ToHex(n \div 16) \o <<HexDigits[(n % 16) + 1]>>

\* String.prototype.padStart(length, character)
PadStart(text, length, character) ==
  IF Len(text) >= length THEN text
  ELSE [i \in 1..(length - Len(text)) |-> character] \o text

\* Schedule.toRoute
toRoute(schedule) ==
  LET originName      == OrElse(getStopName(origin(schedule)), {origin(schedule)})
      destinationName == OrElse(getStopName(destination(schedule)),
                                {destination(schedule)})
      routeLongName   == (CHOOSE n \in originName : TRUE) \o <<"->">>
                           \o (CHOOSE n \in destinationName : TRUE)
      nameAndColour   == getNameAndColour(schedule, routeLongName)
      agency_id       == <<"=", schedule.operator>>
  IN  [route_id         |-> nameAndColour.route_id,
       agency_id        |-> IF agency_id \in agencies THEN agency_id ELSE <<"=", "ZZ">>,
       route_short_name |-> nameAndColour.name,
       route_long_name  |-> nameAndColour.long_name,
       route_type       |-> schedule.mode,
       route_text_color |-> {},
       route_color      |-> {PadStart(ToHex(c), 6, "0") : c \in nameAndColour.colour}]

\* a nullable text inside a template literal
Rendered(text) == IF text = {} THEN <<"null">> ELSE CHOOSE t \in text : TRUE

\* object-hash: the digest of a text; the digests of two texts are equal
\* exactly when the texts are
objectHash(text) == [sha1 |-> text]

\* getRouteHash(route)
getRouteHash(route) ==
  objectHash(route.agency_id \o <<"_">> \o <<route.route_type>> \o <<"_">>
               \o route.route_short_name \o <<"_">> \o Rendered(route.route_long_name)
               \o <<"_">> \o Rendered(route.route_color) \o <<"_">>
               \o Rendered(route.route_text_color))

\* Array.prototype.join(separator) on a list of texts
RECURSIVE Join(_, _)
Join(list, separator) ==
  IF Len(list) = 0 THEN << >>
  ELSE IF Len(list) = 1 THEN list[1]
  ELSE list[1] \o separator \o Join(Tail(list), separator)

\* the stop ids of a stop list in order
StopIds(stopTimes) == [i \in 1..Len(stopTimes) |-> stopTimes[i].stop_id]

\* mutant: the stop ids are joined without a separator
getShapeId_NoSeparator(schedule) ==
  objectHash(Join(StopIds(schedule.stopTimes), << >>))

\* Schedule.getShapeId
getShapeId(schedule) ==
  objectHash(Join(StopIds(schedule.stopTimes), <<"-">>))

\* Schedule.toTrip
toTrip(schedule, routeId) ==
  [route_id        |-> routeId,
   trip_headsign   |-> Rendered(OrElse(getStopName(destination(schedule)),
                                       {destination(schedule)})),
   trip_short_name |-> IF schedule.rsid # {}
                       THEN LET r == CHOOSE r \in schedule.rsid : TRUE
                            IN  SubSeq(r, 1, Min(6, Len(r)))
                       ELSE <<schedule.tuid>>,
   shape_id        |-> getShapeId(schedule),
   original_trip_id |-> schedule.tuid]

\* Schedule.toShape: one point per stop with coordinates, numbered from 0
toShape(schedule) ==
  LET located == SelectSeq(schedule.stopTimes,
                           LAMBDA stop : stop.stop_id \in KnownCoordinates)
  IN  [k \in 1..Len(located) |->
         [shape_id |-> getShapeId(schedule), shape_pt |-> located[k].stop_id,
          shape_pt_sequence |-> k - 1]]

\* routes[routeHash] !== undefined
HasRoute(grouped, routeHash) == \E i \in 1..Len(grouped) : grouped[i].hash = routeHash

\* routes[routeHash]
RouteOf(grouped, routeHash) ==
  grouped[CHOOSE i \in 1..Len(grouped) : grouped[i].hash = routeHash].route

\* routes[routeHash] = routes[routeHash] || route
GroupRoute(grouped, route) ==
  LET routeHash == getRouteHash(route)
  IN  IF HasRoute(grouped, routeHash) THEN grouped
      ELSE Append(grouped, [hash |-> routeHash, route |-> route])

\* the body of the loop of copyTrips for the schedule at a position of the
\* list, which has more than one stop
CopyTrip(schedule, position) ==
  LET route   == toRoute(schedule)
      grouped == GroupRoute(routes, route)
      routeId == RouteOf(grouped, getRouteHash(route)).route_id
      written == Renumbered(schedule.stopTimes)
      shapeId == getShapeId(schedule)
  IN  /\ routes' = grouped
      /\ tripsFile' = Append(tripsFile, [schedule |-> position,
                                         trip |-> toTrip(schedule, routeId)])
      /\ stopTimesFile' =
           Append(stopTimesFile,
                  [schedule |-> position,
                   rows |-> [k \in 1..Len(written) |-> StopTimeRow(written[k])]])
      /\ writtenShapes' = writtenShapes \cup {shapeId}
      /\ shapesFile' = IF shapeId \in writtenShapes THEN shapesFile
                       ELSE Append(shapesFile, toShape(schedule))

\* the loop of copyTrips reaches a schedule with at most one stop: continue
CopyTripsSkip ==
  /\ loadState = "resolved"
  /\ copyNext <= Len(schedules)
  /\ Len(schedules[copyNext].stopTimes) <= 1
  /\ copyNext' = copyNext + 1
  /\ UNCHANGED <<stopTimesFile, routes, tripsFile, writtenShapes, shapesFile,
                 routeFile, copyDone, ldVars, calVars, ovVars, mgVars,
                 runVars, asVars, stVars, hsVars>>

\* the loop of copyTrips writes the trip of a schedule, its stop_times rows
\* and the points of its shape
CopyTripsWrite ==
  /\ loadState = "resolved"
  /\ copyNext <= Len(schedules)
  /\ Len(schedules[copyNext].stopTimes) > 1
  /\ CopyTrip(schedules[copyNext], copyNext)
  /\ schedules' = [schedules EXCEPT ![copyNext].stopTimes =
                     AssignedInPlace(schedules[copyNext].stopTimes)]
  /\ copyNext' = copyNext + 1
  /\ UNCHANGED <<stops, prevRow, departureHour, loadState, rowCount, travelStart,
                 travelNow, routeFile, copyDone, calVars, ovVars, mgVars,
                 runVars, asVars, stVars, hsVars>>

\* the loop of copyTrips is over: the routes are written to routes.txt
CopyTripsEnd ==
  /\ loadState = "resolved"
  /\ copyNext = Len(schedules) + 1
  /\ ~copyDone
  /\ routeFile' = [i \in 1..Len(routes) |-> routes[i].route]
  /\ copyDone' = TRUE
  /\ UNCHANGED <<copyNext, stopTimesFile, routes, tripsFile, writtenShapes,
                 shapesFile, ldVars, calVars, ovVars, mgVars,
                 runVars, asVars, stVars, hsVars>>

-----------------------------------------------------------------------------
(* The row stream of the builder model: few times, every kind of stop *)

Activities == {<<"T", " ">>, <<"D", " ">>, <<"N", " ">>}

\* the places rows call at: two stations and a junction without a CRS
Places ==
  {[crs_code |-> "XXX", location |-> "XXX", atco_code |-> <<"X">>],
   [crs_code |-> "YYY", location |-> "YYY", atco_code |-> <<"Y">>],
   [crs_code |-> "null", location |-> "JCT", atco_code |-> <<"J">>]}

\* a ScheduleStopTimeRow of a Great Western train
ScheduleStopTimeRow(id, stp, place, arrival, departure, activity) ==
  [id |-> id, train_uid |-> "A", retail_train_id |-> {}, atoc_code |-> "GW",
   train_category |-> "OO", stp_indicator |-> stp, crs_code |-> place.crs_code,
   location |-> place.location, atco_code |-> place.atco_code,
   public_arrival_time |-> arrival, public_departure_time |-> departure,
   activity |-> activity]

BuilderRows ==
  {ScheduleStopTimeRow(id, stp, place, time[1], time[2], activity) :
     id \in 1..MaxRows, stp \in {"P", "C"}, place \in Places,
     time \in {<<{}, {}>>, <<{600}, {630}>>}, activity \in Activities}

\* the stream emits a row
BuilderResult ==
  /\ \E row \in BuilderRows :
       /\ FollowsStream(row)
       /\ OnResult(row)
  /\ UNCHANGED <<travelStart, travelNow, cpVars, calVars, ovVars, mgVars,
                 runVars, asVars, stVars, hsVars>>

BuilderNext ==
  \/ BuilderResult
  \/ OnEnd
  \/ OnError
  \/ CopyTripsSkip
  \/ CopyTripsWrite
  \/ CopyTripsEnd

SpecBuilder == LdInit /\ [][BuilderNext]_vars

-----------------------------------------------------------------------------
(* The row stream of the calls model: consecutive rows at one station *)

\* the rows of the calls model: permanent and cancelled schedules, calls that
\* allow boarding and calls that are not advertised, at every place
CallRows ==
  {ScheduleStopTimeRow(id, stp, place, {600}, {630}, activity) :
     id \in 1..MaxRows, stp \in {"P", "C"}, place \in Places,
     activity \in {<<"T", " ">>, <<"N", " ">>}}

\* the stream emits a row
CallsResult ==
  /\ \E row \in CallRows :
       /\ FollowsStream(row)
       /\ OnResult(row)
  /\ UNCHANGED <<travelStart, travelNow, cpVars, calVars, ovVars, mgVars, runVars,
                 asVars, stVars, hsVars>>

CallsNext ==
  \/ CallsResult
  \/ OnEnd
  \/ OnError

SpecCalls == LdInit /\ [][CallsNext]_vars

-----------------------------------------------------------------------------
(* The row stream of the times model: rows in travel order *)

(* The times of a journey are drawn as minutes since the midnight of the day *)
(* the journey starts on: 03:30, 04:10, 23:30 and, on the next day, 00:10.   *)
(* The row carries the time on the clock, t % MinutesPerDay.                 *)
TravelTimes == {210, 250, 1410, 1450}

\* the public arrival and departure of a call: a passing point, an origin, a
\* terminus, or a call that arrives no later than it departs
TimedCalls ==
  {<<{}, {}>>}
    \cup {<<{}, {d}>> : d \in TravelTimes}
    \cup {<<{a}, {}>> : a \in TravelTimes}
    \cup {<<{c[1]}, {c[2]}>> : c \in {x \in TravelTimes \X TravelTimes : x[1] <= x[2]}}

\* the time on the clock of a nullable travel time
Clock(time) == {t % MinutesPerDay : t \in time}

\* the row of a call
TimedRow(id, crs, call) ==
  ScheduleStopTimeRow(id, "P", CHOOSE place \in Places : place.crs_code = crs,
                      Clock(call[1]), Clock(call[2]), <<"T", " ">>)

\* the call keeps the travel order of its schedule: no time is before the time
\* of the call before it, the journey starts on its first day and lasts less
\* than MaxSpan
InTravelOrder(start, now, call) ==
  LET times == call[1] \cup call[2]
  IN  /\ \A t \in times : \A n \in now : t >= n
      /\ \A t \in times : \A b \in start : t < b + MaxSpan
      /\ start = {} => \A t \in times : t < MinutesPerDay
      /\ start = {} => \A t \in times, u \in times : t < u + MaxSpan

\* the stream emits the row of a call in travel order
TimesResult ==
  /\ \E id \in 1..MaxRows, crs \in {"XXX", "YYY"}, call \in TimedCalls :
       LET row     == TimedRow(id, crs, call)
           entered == EntersSchedule(prevRow, row)
           start   == IF entered THEN {} ELSE travelStart
           now     == IF entered THEN {} ELSE travelNow
           times   == call[1] \cup call[2]
       IN  /\ FollowsStream(row)
           /\ InTravelOrder(start, now, call)
           /\ OnResult(row)
           /\ travelStart' = IF start # {} \/ times = {} THEN start
                             ELSE OrElse(call[1], call[2])
           /\ travelNow' = IF times = {} THEN now ELSE OrElse(call[2], call[1])
  /\ UNCHANGED <<cpVars, calVars, ovVars, mgVars,
                 runVars, asVars, stVars, hsVars>>

TimesNext ==
  \/ TimesResult
  \/ OnEnd
  \/ OnError

SpecTimes == LdInit /\ [][TimesNext]_vars

-----------------------------------------------------------------------------
(* The schedule list of the route model: operators, modes and stop lists *)

\* the places of the route model: the stop id of the third is the text of
\* the first followed by the text of the second
RoutePlaces ==
  [X  |-> [crs_code |-> "XXX", location |-> "XXX", atco_code |-> <<"X">>],
   Y  |-> [crs_code |-> "YYY", location |-> "YYY", atco_code |-> <<"Y">>],
   XY |-> [crs_code |-> "SDC", location |-> "SDC", atco_code |-> <<"X", "Y">>]]

\* the stop list of a schedule that calls at the places in order
RouteStops(places) ==
  [k \in 1..Len(places) |->
     createStop(ScheduleStopTimeRow(1, "P", RoutePlaces[places[k]], {600}, {630},
                                    <<"T", " ">>), k, 10)]

RouteStopLists ==
  {RouteStops(places) :
     places \in {<<"X", "Y">>, <<"X", "Y", "X">>, <<"XY", "X">>, <<"X">>}}

\* a schedule as the pipeline hands it to copyTrips
RouteSchedule(operator, mode, rsid, stopTimes) ==
  [id |-> 1, stp |-> "P", stopTimes |-> stopTimes, tuid |-> "A", rsid |-> rsid,
   mode |-> mode, operator |-> operator]

RouteSchedules ==
  {RouteSchedule(service[1], service[2], {}, list) :
     service \in {<<"GW", "Rail">>, <<"GW", "ReplacementBus">>, <<"LM", "Rail">>,
                  <<"LO", "Rail">>},
     list \in RouteStopLists}
    \cup
  {RouteSchedule("NY", "Rail", {rsid}, RouteStops(<<"X", "Y">>)) :
     rsid \in {<<"N", "Y", "1", "2", "3", "4", "0", "0">>,
               <<"N", "Y", "1", "2", "3", "4", "0", "1">>,
               <<"N", "Y", "5", "6", "7", "8", "0", "0">>}}

\* the list given to copyTrips holds one more schedule: the body of the loop
RoutesCopyTrip ==
  /\ ~copyDone
  /\ Len(schedules) < MaxTrips
  /\ \E schedule \in RouteSchedules :
       /\ IF Len(schedule.stopTimes) <= 1
          THEN UNCHANGED <<stopTimesFile, routes, tripsFile, writtenShapes, shapesFile, asVars, stVars, hsVars>>
          ELSE CopyTrip(schedule, copyNext)
       /\ schedules' =
            Append(schedules,
                   IF Len(schedule.stopTimes) <= 1 THEN schedule
                   ELSE [schedule EXCEPT !.stopTimes = AssignedInPlace(@)])
  /\ copyNext' = copyNext + 1
  /\ UNCHANGED <<stops, prevRow, departureHour, loadState, rowCount, travelStart,
                 travelNow, routeFile, copyDone, calVars, ovVars, mgVars,
                 runVars, asVars, stVars, hsVars>>

RtInit ==
  /\ HsStart
  /\ OvStart
  /\ MgStart
  /\ stops = << >>
  /\ prevRow = {}
  /\ departureHour = 4
  /\ schedules = << >>
  /\ loadState = "resolved"
  /\ rowCount = 0
  /\ travelStart = {}
  /\ travelNow = {}
  /\ copyNext = 1
  /\ stopTimesFile = << >>
  /\ routes = << >>
  /\ tripsFile = << >>
  /\ writtenShapes = {}
  /\ shapesFile = << >>
  /\ routeFile = << >>
  /\ copyDone = FALSE
  /\ RunStart
  /\ AsStart
  /\ StStart
  /\ calThis = ScheduleCalendar(1, 1, ALL_DAYS, {})
  /\ calOther = ScheduleCalendar(1, 1, ALL_DAYS, {})
  /\ calOp = "new"
  /\ calArgs = NoArgs
  /\ calOverlap = "-"
  /\ calOut = {}

RtNext ==
  \/ RoutesCopyTrip
  \/ CopyTripsEnd

SpecRoutes == RtInit /\ [][RtNext]_vars

-----------------------------------------------------------------------------
(* OutputGTFSCommand.run and OutputGTFSCommand.copy *)

(* run starts the association query, the schedule stream and five copy      *)
(* tasks, then awaits the associations and the schedules.  The passes       *)
(* between loadSchedules and copyTrips have their own specifications: here  *)
(* copyTrips is given the schedules of the builder.                         *)

\* the continuations queued as microtasks: a copy task awaiting an array
\* runs before any event of a query or of the stream
MicrotaskPending == \E f \in ArrayFiles \cup CalendarFiles : copies[f] = "awaiting"

\* copy of an array: the rows are written and the output is ended
CopyArray ==
  /\ \E f \in ArrayFiles \cup CalendarFiles :
       /\ copies[f] = "awaiting"
       /\ copies' = [copies EXCEPT ![f] = "written"]
       /\ sinkRecords' = [sinkRecords EXCEPT ![f] = IF f \in ArrayFiles THEN 1
                                                    ELSE Len(schedules)]
  /\ UNCHANGED <<runState, associationsP, repositoryEnded, outputEnded, calVars,
                 ovVars, mgVars, ldVars, cpVars, asVars, stVars, hsVars>>

\* copy of the rows of a query: the query resolves with its rows, which are
\* written, and the output is ended
CopyQuery ==
  /\ ~MicrotaskPending
  /\ \E f \in QueryFiles :
       /\ copies[f] = "awaiting"
       /\ copies' = [copies EXCEPT ![f] = "written"]
       /\ sinkRecords' = [sinkRecords EXCEPT ![f] = 1]
  /\ UNCHANGED <<runState, associationsP, repositoryEnded, outputEnded, calVars,
                 ovVars, mgVars, ldVars, cpVars, asVars, stVars, hsVars>>

\* copy of the rows of a query: the query rejects and so does the copy task
CopyQueryRejects ==
  /\ ~MicrotaskPending
  /\ \E f \in QueryFiles :
       /\ copies[f] = "awaiting"
       /\ copies' = [copies EXCEPT ![f] = "rejected"]
  /\ UNCHANGED <<runState, associationsP, sinkRecords, repositoryEnded, outputEnded,
                 calVars, ovVars, mgVars, ldVars, cpVars, asVars, stVars, hsVars>>

\* streamToPromise(output) of a copy task resolves
CopyFinishes ==
  /\ ~MicrotaskPending
  /\ \E f \in Files :
       /\ copies[f] = "written"
       /\ copies' = [copies EXCEPT ![f] = "finished"]
  /\ UNCHANGED <<runState, associationsP, sinkRecords, repositoryEnded, outputEnded,
                 calVars, ovVars, mgVars, ldVars, cpVars, asVars, stVars, hsVars>>

\* the association query settles
AssociationsSettle ==
  /\ ~MicrotaskPending
  /\ associationsP = "pending"
  /\ associationsP' \in {"resolved", "rejected"}
  /\ UNCHANGED <<runState, copies, sinkRecords, repositoryEnded, outputEnded, calVars,
                 ovVars, mgVars, ldVars, cpVars, asVars, stVars, hsVars>>

\* the rows of the stream of the run model
RunRows ==
  {ScheduleStopTimeRow(id, "P", place, {600}, {630}, <<"T", " ">>) :
     id \in 1..MaxRows, place \in {p \in Places : p.crs_code # "null"}}

\* the stream emits a row
RunResult ==
  /\ ~MicrotaskPending
  /\ \E row \in RunRows : FollowsStream(row) /\ OnResult(row)
  /\ UNCHANGED <<travelStart, travelNow, cpVars, calVars, ovVars, mgVars, runVars, asVars, stVars, hsVars>>

\* the stream ends
RunEnd == ~MicrotaskPending /\ OnEnd

\* the stream emits an error
RunError == ~MicrotaskPending /\ OnError

\* await associationsP
AwaitAssociations ==
  /\ runState = "awaitAssociations"
  /\ associationsP # "pending"
  /\ runState' = IF associationsP = "resolved" THEN "awaitSchedules" ELSE "rejected"
  /\ UNCHANGED <<associationsP, copies, sinkRecords, repositoryEnded, outputEnded,
                 calVars, ovVars, mgVars, ldVars, cpVars, asVars, stVars, hsVars>>

\* await scheduleResultsP, then getSchedules up to its await of the headsigns
AwaitSchedules ==
  /\ runState = "awaitSchedules"
  /\ loadState # "open"
  /\ runState' = IF loadState = "resolved" THEN "awaitHeadsigns" ELSE "rejected"
  /\ UNCHANGED <<associationsP, copies, sinkRecords, repositoryEnded, outputEnded,
                 calVars, ovVars, mgVars, ldVars, cpVars, asVars, stVars, hsVars>>

\* the headsign queries of getSchedules reject: run rejects
HeadsignsReject ==
  /\ ~MicrotaskPending
  /\ runState = "awaitHeadsigns"
  /\ runState' = "rejected"
  /\ UNCHANGED <<associationsP, copies, sinkRecords, repositoryEnded, outputEnded,
                 calVars, ovVars, mgVars, ldVars, cpVars, asVars, stVars, hsVars>>

\* the headsign queries resolve: run starts the calendar copy tasks and
\* copyTrips, calls repository.end() and output.end(), and awaits them all
StartOutput ==
  /\ ~MicrotaskPending
  /\ runState = "awaitHeadsigns"
  /\ runState' = "awaitAll"
  /\ copies' = [f \in Files |-> IF f \in CalendarFiles THEN "awaiting" ELSE copies[f]]
  /\ repositoryEnded' = TRUE
  /\ outputEnded' = TRUE
  /\ UNCHANGED <<associationsP, sinkRecords, calVars, ovVars, mgVars, ldVars, cpVars, asVars, stVars, hsVars>>

\* an iteration of the loop of copyTrips, or its end
RunCopyTrips ==
  /\ ~MicrotaskPending
  /\ runState = "awaitAll"
  /\ CopyTripsSkip \/ CopyTripsWrite \/ CopyTripsEnd

\* Promise.all settles: it resolves when every task has, and rejects when
\* one has rejected
AwaitAll ==
  /\ runState = "awaitAll"
  /\ \/ /\ \E f \in Files : copies[f] = "rejected"
        /\ runState' = "rejected"
     \/ /\ \A f \in Files : copies[f] = "finished"
        /\ copyDone
        /\ runState' = "resolved"
  /\ UNCHANGED <<associationsP, copies, sinkRecords, repositoryEnded, outputEnded,
                 calVars, ovVars, mgVars, ldVars, cpVars, asVars, stVars, hsVars>>

RunNext ==
  \/ CopyArray
  \/ CopyQuery
  \/ CopyQueryRejects
  \/ CopyFinishes
  \/ AssociationsSettle
  \/ RunResult
  \/ RunEnd
  \/ RunError
  \/ AwaitAssociations
  \/ AwaitSchedules
  \/ HeadsignsReject
  \/ StartOutput
  \/ RunCopyTrips
  \/ AwaitAll

SpecRun == LdInit /\ [][RunNext]_vars

\* the event loop runs every continuation and delivers every event that is
\* due: no step that stays possible is put off for ever
SpecRunFair == LdInit /\ [][RunNext]_vars /\ WF_vars(RunNext)

-----------------------------------------------------------------------------
(* ScheduleBuilder.createStop on the activity texts of the rows *)

\* the activity codes of the rows: train stops, train begins, train finishes,
\* stops to take up, stops to set down, not advertised, request stop, and a
\* code that createStop does not read
ActivityCodes ==
  {<<"T", " ">>, <<"T", "B">>, <<"T", "F">>, <<"U", " ">>, <<"D", " ">>,
   <<"N", " ">>, <<"R", " ">>, <<"A", " ">>}

\* the longest activity text of the model, in codes
MaxCodes == 2

\* the longest stop list given to fillStopHeadsigns
MaxHeadsignStops == 3

\* the longest stop list given to the via-text lookup
MaxViaStops == 5

\* the most entries of a via-text table
MaxViaEntries == 2

\* the activity texts of at most n codes
RECURSIVE ActivityTexts(_)
ActivityTexts(n) ==
  IF n = 0 THEN {<< >>}
  ELSE ActivityTexts(n - 1)
         \cup {text \o code : text \in ActivityTexts(n - 1), code \in ActivityCodes}

\* the rows handed to createStop
StopRows ==
  {ScheduleStopTimeRow(1, "P", place, time[1], time[2], activity) :
     place \in Places,
     time \in {<<{}, {}>>, <<{600}, {}>>, <<{}, {630}>>, <<{600}, {630}>>},
     activity \in ActivityTexts(MaxCodes)}

StInit ==
  /\ HsStart
  /\ OvStart
  /\ MgStart
  /\ LdStart
  /\ RunStart
  /\ AsStart
  /\ calThis = ScheduleCalendar(1, 1, ALL_DAYS, {})
  /\ calOther = ScheduleCalendar(1, 1, ALL_DAYS, {})
  /\ calOp = "new"
  /\ calArgs = NoArgs
  /\ calOverlap = "-"
  /\ calOut = {}
  /\ csRow \in StopRows
  /\ csStop = {}

\* this.createStop(row, stops.length + 1, departureHour) as loadSchedules
\* calls it for the first row of a stream
CreateStop ==
  /\ csStop = {}
  /\ csStop' = {createStop(csRow, Len(stops) + 1, departureHour)}
  /\ UNCHANGED <<csRow, calVars, ovVars, mgVars, ldVars, cpVars, runVars, asVars, hsVars>>

StNext == CreateStop

SpecStops == StInit /\ [][StNext]_vars

-----------------------------------------------------------------------------
(* Association.apply: the split or join of a base and an associated schedule *)
(*                                                                           *)
(* A TUID is a sequence of pieces and a trip id is the TUID with the two     *)
(* dates of its calendar.  Times are minutes, as in the builder.             *)

\* DateIndicator
DateIndicator == [Same |-> "S", Next |-> "N", Previous |-> "P"]

\* AssociationType
AssociationType == [Split |-> "VV", Join |-> "JJ", NA |-> ""]

\* new Association(...)
Association(id, baseTUID, assocTUID, assocLocation, dateIndicator, assocType, calendar, stp) ==
  [id |-> id, baseTUID |-> baseTUID, assocTUID |-> assocTUID,
   assocLocation |-> assocLocation, dateIndicator |-> dateIndicator,
   assocType |-> assocType, calendar |-> calendar, stp |-> stp]

\* new Schedule(...)
Schedule(id, tripId, stopTimes, tuid, rsid, calendar, mode, operator, stp) ==
  [id |-> id, tripId |-> tripId, stopTimes |-> stopTimes, tuid |-> tuid,
   rsid |-> rsid, calendar |-> calendar, mode |-> mode, operator |-> operator,
   stp |-> stp]

\* Schedule.clone(calendar, scheduleId): the trip id and the stops are kept
cloneSchedule(schedule, calendar, scheduleId) ==
  Schedule(scheduleId, schedule.tripId, schedule.stopTimes, schedule.tuid,
           schedule.rsid, calendar, schedule.mode, schedule.operator, schedule.stp)

\* `${tuid}_${runsFrom}_${runsTo}`
TripIdOf(tuid, calendar) ==
  [tuid |-> tuid, from |-> calendar.runsFrom, to |-> calendar.runsTo]

\* stopTimes.findIndex(s => s.tiploc_code === location), counted from 0,
\* -1 when no stop matches
findIndex(stopTimes, location) ==
  IF \E i \in 1..Len(stopTimes) : stopTimes[i].tiploc_code = location
  THEN (CHOOSE i \in 1..Len(stopTimes) :
          /\ stopTimes[i].tiploc_code = location
          /\ \A j \in 1..(i - 1) : stopTimes[j].tiploc_code # location) - 1
  ELSE -1

\* Array.prototype.slice(start, end) with start >= 0: a negative end counts
\* from the end of the list
slice(list, start, end) ==
  LET last == IF end < 0 THEN Max(Len(list) + end, 0) ELSE Min(end, Len(list))
  IN  SubSeq(list, start + 1, last)

\* Schedule.before(location)
before(schedule, location) ==
  slice(schedule.stopTimes, 0, findIndex(schedule.stopTimes, location))

\* Schedule.after(location)
after(schedule, location) ==
  slice(schedule.stopTimes, findIndex(schedule.stopTimes, location) + 1,
        Len(schedule.stopTimes))

\* Schedule.stopAt(location): the first stop at the location, {} is undefined
stopAt(schedule, location) ==
  LET i == findIndex(schedule.stopTimes, location)
  IN  IF i < 0 THEN {} ELSE {schedule.stopTimes[i + 1]}

\* duration.add(1, "day") on a nullable time
AddDay(time) == {t + MinutesPerDay : t \in time}

\* Association.mergeAssociationStop(arrivalStop, departureStop)
mergeAssociationStop(this, arrivalStop, departureStop) ==
  LET arrived  == arrivalStop.arrival_time
      departed == IF this.dateIndicator # DateIndicator.Same
                  THEN AddDay(departureStop.departure_time)
                  ELSE departureStop.departure_time
  IN  [arrivalStop EXCEPT !.arrival_time   = OrElse(arrived, departed),
                          !.departure_time = OrElse(departed, OrElse(arrived, departed)),
                          !.pickup_type    = departureStop.pickup_type,
                          !.drop_off_type  = arrivalStop.drop_off_type]

\* mutant: the times of no stop are moved to the next day
cloneStop_SameDay(stop, stopSequence, tripId, nextDay, disablePickup, disableDropOff) ==
  [stop EXCEPT !.pickup_type    = IF disablePickup THEN 1 ELSE @,
               !.drop_off_type  = IF disableDropOff THEN 1 ELSE @,
               !.stop_sequence  = stopSequence,
               !.trip_id        = tripId]

\* cloneStop(stop, stopSequence, tripId, nextDay, disablePickup, disableDropOff)
cloneStop(stop, stopSequence, tripId, nextDay, disablePickup, disableDropOff) ==
  [stop EXCEPT !.pickup_type    = IF disablePickup THEN 1 ELSE @,
               !.drop_off_type  = IF disableDropOff THEN 1 ELSE @,
               !.arrival_time   = IF nextDay THEN AddDay(@) ELSE @,
               !.departure_time = IF nextDay THEN AddDay(@) ELSE @,
               !.stop_sequence  = stopSequence,
               !.trip_id        = tripId]

\* the calendar of the merged schedule (mergeSchedules, the calendar.clone
\* call): {} is null
mergedCalendar(this, assoc) ==
  LET calendar     == IF this.dateIndicator = DateIndicator.Next
                      THEN shiftBackward(assoc.calendar) ELSE assoc.calendar
      thisCalendar == IF this.dateIndicator = DateIndicator.Previous
                      THEN shiftBackward(this.calendar) ELSE this.calendar
  IN  clone(calendar,
            Max(thisCalendar.runsFrom, calendar.runsFrom),
            Min(thisCalendar.runsTo, calendar.runsTo),
            NO_DAYS,
            calendar.excludeDays \cup thisCalendar.excludeDays)

\* Association.mergeSchedules(base, assoc): {} is null
mergeSchedules(this, base, assoc) ==
  LET location  == this.assocLocation
      baseStop  == stopAt(base, location)
      assocStop == stopAt(assoc, location)
      split     == this.assocType = AssociationType.Split
      join      == this.assocType = AssociationType.Join
      tuid      == IF split THEN base.tuid \o <<"_">> \o assoc.tuid
                   ELSE assoc.tuid \o <<"_">> \o base.tuid
      start     == IF split THEN before(base, location) ELSE before(assoc, location)
      end       == IF split THEN after(assoc, location) ELSE after(base, location)
      nextDay   == \/ split /\ this.dateIndicator = DateIndicator.Next
                   \/ join /\ this.dateIndicator = DateIndicator.Previous
  IN  IF baseStop = {} \/ assocStop = {} THEN {assoc}
      ELSE
        LET b         == CHOOSE x \in baseStop : TRUE
            a         == CHOOSE x \in assocStop : TRUE
            mergeStop == IF split THEN mergeAssociationStop(this, b, a)
                         ELSE mergeAssociationStop(this, a, b)
        IN  {Schedule(assoc.id,
                      TripIdOf(tuid, newCalendar),
                      [i \in 1..(Len(start) + 1 + Len(end)) |->
                         IF i <= Len(start)
                         THEN cloneStop(start[i], i, TripIdOf(tuid, newCalendar),
                                        FALSE, FALSE, split)
                         ELSE IF i = Len(start) + 1
                         THEN cloneStop(mergeStop, i, TripIdOf(tuid, newCalendar),
                                        FALSE, join, split)
                         ELSE cloneStop(end[i - Len(start) - 1], i,
                                        TripIdOf(tuid, newCalendar),
                                        nextDay, join, FALSE)],
                      tuid, assoc.rsid, newCalendar, assoc.mode, assoc.operator,
                      assoc.stp) : newCalendar \in mergedCalendar(this, assoc)}

\* the calendar of the association in the days of the associated schedule
\* (apply, assocCalendar)
assocCalendarOf(this) ==
  IF this.dateIndicator = DateIndicator.Next THEN shiftForward(this.calendar)
  ELSE IF this.dateIndicator = DateIndicator.Previous
  THEN shiftBackward(this.calendar)
  ELSE this.calendar

\* Association.apply(base, assoc, idGenerator): the schedules returned
apply(this, base, assoc, nextId) ==
  LET mergedBase      == mergeSchedules(this, base, assoc)
      excludeCalendar == addExcludeDays(assoc.calendar, assocCalendarOf(this))
  IN  Spread(mergedBase)
        \o Spread({cloneSchedule(assoc, c, nextId) : c \in excludeCalendar})

\* the calendars of the associations: as getAssociations builds them from a
\* row, and as applyOverlays leaves them with a day excluded
AssociationCalendars ==
  OverlayCalendars \cup {c \in ExcludedCalendars : c.runsTo <= MaxOverlayDay}

\* a StopTime of a schedule handed to apply
AsStopTime(tiploc, arrival, departure, pickup, dropOff) ==
  [trip_id |-> << >>, arrival_time |-> arrival, departure_time |-> departure,
   tiploc_code |-> tiploc, stop_sequence |-> 0, pickup_type |-> pickup,
   drop_off_type |-> dropOff]

\* the stops of the base schedules: one through the junction JCT, one that
\* does not call there
BaseStopLists ==
  {<<AsStopTime("PAD", {1320}, {1320}, 0, 0), AsStopTime("JCT", {1380}, {1390}, 0, 0),
     AsStopTime("QQQ", {1430}, {1430}, 0, 0)>>,
   <<AsStopTime("PAD", {1320}, {1320}, 0, 0),
     AsStopTime("QQQ", {1430}, {1430}, 0, 0)>>}

\* the stops of the associated schedules: through the junction, from the
\* junction, and one that does not call there
AssocStopLists ==
  {<<AsStopTime("SSS", {1350}, {1350}, 0, 0), AsStopTime("JCT", {1375}, {1395}, 0, 1),
     AsStopTime("RRR", {1420}, {1420}, 0, 0)>>,
   <<AsStopTime("JCT", {1395}, {1395}, 0, 1),
     AsStopTime("RRR", {1420}, {1420}, 1, 0)>>,
   <<AsStopTime("SSS", {1350}, {1350}, 0, 0),
     AsStopTime("RRR", {1420}, {1420}, 0, 0)>>}

\* a schedule handed to apply: its stops carry its trip id and are numbered
\* from 1
AsSchedule(id, tuid, stopTimes, calendar) ==
  Schedule(id, TripIdOf(tuid, calendar),
           [i \in 1..Len(stopTimes) |->
              [stopTimes[i] EXCEPT !.trip_id = TripIdOf(tuid, calendar),
                                   !.stop_sequence = i]],
           tuid, {}, calendar, "Rail", "GW", "P")

\* the first id the generator hands out
FirstFreeId == 3

AsInit ==
  /\ HsStart
  /\ OvStart
  /\ MgStart
  /\ LdStart
  /\ RunStart
  /\ StStart
  /\ calThis = ScheduleCalendar(1, 1, ALL_DAYS, {})
  /\ calOther = ScheduleCalendar(1, 1, ALL_DAYS, {})
  /\ calOp = "new"
  /\ calArgs = NoArgs
  /\ calOverlap = "-"
  /\ calOut = {}
  /\ \E dateIndicator \in {"S", "N", "P"}, assocType \in {"VV", "JJ", ""},
        calendar \in AssociationCalendars :
       asThis = Association(1, <<"A">>, <<"B">>, "JCT", dateIndicator, assocType,
                            calendar, "P")
  /\ \E stopTimes \in BaseStopLists :
       asBase = AsSchedule(1, <<"A">>, stopTimes,
                           ScheduleCalendar(1, MaxDay, ALL_DAYS, {}))
  /\ \E stopTimes \in AssocStopLists, calendar \in Calendars :
       asAssoc = AsSchedule(2, <<"B">>, stopTimes, calendar)
  /\ asNextId = FirstFreeId
  /\ asApplied = FALSE
  /\ asOut = << >>

\* association.apply(base, assoc, idGenerator): the generator is advanced
\* when the stand-alone clone is made
AssociationApply ==
  /\ ~asApplied
  /\ asOut' = apply(asThis, asBase, asAssoc, asNextId)
  /\ asNextId' = IF addExcludeDays(asAssoc.calendar, assocCalendarOf(asThis)) # {}
                 THEN asNextId + 1 ELSE asNextId
  /\ asApplied' = TRUE
  /\ UNCHANGED <<asThis, asBase, asAssoc, calVars, ovVars, mgVars, ldVars, cpVars,
                 runVars, stVars, hsVars>>

AsNext == AssociationApply

SpecAssociation == AsInit /\ [][AsNext]_vars

-----------------------------------------------------------------------------
(* ScheduleBuilder.fillStopHeadsigns: the headsign rules of TL and LO *)
(*                                                                       *)
(* An index into the stop list is 0-based as in the code: the stop at    *)
(* index k is stops[k + 1].  A nullable index is a set holding at most   *)
(* one index.  A stop id is the sequence of its first four characters    *)
(* followed by the rest of the id as one piece; a headsign is a text.    *)

\* the stations of the schedules given to fillStopHeadsigns: CRS -> TIPLOC
HeadsignStations ==
  [crs \in {"BFR", "STE", "WIM", "MIJ", "SUO", "CLJ", "HHY", "WIJ", "SQE"} |->
     CASE crs = "BFR" -> "BLFR"
       [] crs = "STE" -> "STRETHM"
       [] crs = "WIM" -> "WDON"
       [] crs = "MIJ" -> "MITCHMJ"
       [] crs = "SUO" -> "SUTTON"
       [] crs = "CLJ" -> "CLPHMJN"
       [] crs = "HHY" -> "HIGHBYA"
       [] crs = "WIJ" -> "WLSDJHL"
       [] crs = "SQE" -> "SURREYQ"]

\* CONCAT('9100', location, IFNULL(platform, '')) of the schedule query
AtcoCodeOf(location) == <<"9", "1", "0", "0", location>>

\* stop_id.substring(0, 3)
substring3(stop_id) == SubSeq(stop_id, 1, 3)

\* a stop as createStop leaves it for the station: no headsign yet
HeadsignStop(crs, time) ==
  [arrival_time   |-> time,
   departure_time |-> time,
   stop_id        |-> AtcoCodeOf(HeadsignStations[crs]),
   stop_code      |-> crs,
   tiploc_code    |-> HeadsignStations[crs],
   stop_headsign  |-> {}]

\* findCallingIndex(stop_code, start): the first index at or after start
\* whose stop has the code
findCallingIndex(stopTimes, stop_code, start) ==
  LET found == {k \in 0..(Len(stopTimes) - 1) :
                  stopTimes[k + 1].stop_code = stop_code /\ k >= start}
  IN  IF found = {} THEN {} ELSE {CHOOSE k \in found : \A j \in found : k <= j}

\* if (index): a null index and the index 0 are falsy
Truthy(index) == \E k \in index : k # 0

\* the rule "Sutton (via Mitcham Junction) / Sutton (via Wimbledon)" at index i
SuttonLoopRule(stopTimes, atoc_code, i) ==
  IF stopTimes[Len(stopTimes)].stop_code = "SUO" /\ atoc_code = "TL"
  THEN LET index     == findCallingIndex(stopTimes, "STE", i)
           wimbledon == findCallingIndex(stopTimes, "WIM", i + 1)
           mitcham   == findCallingIndex(stopTimes, "MIJ", i + 1)
       IN  IF index # {}
           THEN [stopTimes EXCEPT ![i + 1].stop_headsign =
                   IF wimbledon # {} THEN {<<"Sutton (via Wimbledon)">>}
                   ELSE IF mitcham # {} THEN {<<"Sutton (via Mitcham Junction)">>}
                   ELSE {}]
           ELSE stopTimes
  ELSE stopTimes

\* the rule of the calls at Sutton at index i: it assigns stops[0]
FromSuttonRule(stopTimes, atoc_code, destination_name, i) ==
  IF stopTimes[i + 1].stop_code = "SUO" /\ atoc_code = "TL"
  THEN LET wimbledon == findCallingIndex(stopTimes, "WIM", i + 1)
           mitcham   == findCallingIndex(stopTimes, "MIJ", i + 1)
       IN  [stopTimes EXCEPT ![1].stop_headsign =
              IF wimbledon # {}
              THEN {Rendered(destination_name) \o <<" (via Wimbledon)">>}
              ELSE IF mitcham # {}
              THEN {Rendered(destination_name) \o <<" (via Mitcham Junction)">>}
              ELSE {}]
  ELSE stopTimes

\* the two assignments of the LO rules to one stop of the inner loop
OvergroundHeadsign(stopTimes, stop, terminus, i) ==
  LET viaWillesden == IF Truthy(findCallingIndex(stopTimes, "WIJ", i + 1))
                      THEN {<<terminus, " (via Willesden Junction)">>}
                      ELSE stop.stop_headsign
  IN  IF Truthy(findCallingIndex(stopTimes, "SQE", i + 1))
      THEN {<<terminus, " (via Surrey Quays)">>}
      ELSE viaWillesden

\* the block if (atoc_code === 'LO') at index i
OvergroundRule(stopTimes, atoc_code, destination_id, i) ==
  LET toClapham ==
        IF destination_id = <<"C", "L", "J">>
        THEN [k \in 1..Len(stopTimes) |->
                IF substring3(stopTimes[k].stop_id) \in {<<"H", "H", "Y">>, <<"C", "N", "N">>}
                THEN [stopTimes[k] EXCEPT !.stop_headsign =
                        OvergroundHeadsign(stopTimes, stopTimes[k], "Clapham Junction", i)]
                ELSE stopTimes[k]]
        ELSE stopTimes
      toHighbury ==
        IF destination_id = <<"H", "H", "Y">>
        THEN [k \in 1..Len(toClapham) |->
                IF substring3(toClapham[k].stop_id) = <<"C", "L", "J">>
                THEN [toClapham[k] EXCEPT !.stop_headsign =
                        OvergroundHeadsign(toClapham, toClapham[k], "Highbury & Islington", i)]
                ELSE toClapham[k]]
        ELSE toClapham
  IN  IF atoc_code = "LO" THEN toHighbury ELSE stopTimes

\* the operators of the schedules: the blocks of SW and SE are guarded by
\* atoc_code and are passed over for these
HeadsignOperators == {"TL", "LO", "ZZ"}

\* the stop lists of the schedules: consecutive stops at different stations
HeadsignStopLists ==
  LET crsLists == UNION {[1..n -> DOMAIN HeadsignStations] : n \in 1..MaxHeadsignStops}
  IN  {[k \in 1..Len(list) |-> HeadsignStop(list[k], {600 + 10 * k})] :
         list \in {l \in crsLists : \A k \in 1..(Len(l) - 1) : l[k] # l[k + 1]}}

HsInit ==
  /\ OvStart
  /\ MgStart
  /\ LdStart
  /\ RunStart
  /\ AsStart
  /\ StStart
  /\ calThis = ScheduleCalendar(1, 1, ALL_DAYS, {})
  /\ calOther = ScheduleCalendar(1, 1, ALL_DAYS, {})
  /\ calOp = "new"
  /\ calArgs = NoArgs
  /\ calOverlap = "-"
  /\ calOut = {}
  /\ hsOperator \in HeadsignOperators
  /\ hsStops \in HeadsignStopLists
  /\ hsI = 0
  /\ hsRule = "SuttonLoop"
  /\ hsViaText = << >>

\* stops[stops.length - 1].stop_id and repository.getStopName of it
destination_id == hsStops[Len(hsStops)].stop_id

destination_name == getStopName(destination_id)

\* lines 192-199 of the loop body at index i
SuttonLoopStep ==
  /\ hsRule = "SuttonLoop"
  /\ hsI < Len(hsStops)
  /\ hsStops' = SuttonLoopRule(hsStops, hsOperator, hsI)
  /\ hsRule' = "FromSutton"
  /\ UNCHANGED <<hsOperator, hsI, hsViaText, calVars, ovVars, mgVars, ldVars,
                 cpVars, runVars, asVars, stVars>>

\* lines 201-205 of the loop body at index i
FromSuttonStep ==
  /\ hsRule = "FromSutton"
  /\ hsStops' = FromSuttonRule(hsStops, hsOperator, destination_name, hsI)
  /\ hsRule' = "Overground"
  /\ UNCHANGED <<hsOperator, hsI, hsViaText, calVars, ovVars, mgVars, ldVars,
                 cpVars, runVars, asVars, stVars>>

\* lines 551-576 of the loop body at index i, then ++i
OvergroundStep ==
  /\ hsRule = "Overground"
  /\ hsStops' = OvergroundRule(hsStops, hsOperator, destination_id, hsI)
  /\ hsI' = hsI + 1
  /\ hsRule' = "SuttonLoop"
  /\ UNCHANGED <<hsOperator, hsViaText, calVars, ovVars, mgVars, ldVars,
                 cpVars, runVars, asVars, stVars>>

HsNext ==
  \/ SuttonLoopStep
  \/ FromSuttonStep
  \/ OvergroundStep

SpecHeadsigns == HsInit /\ [][HsNext]_vars

-----------------------------------------------------------------------------
(* fillStopHeadsigns with the via-text table (the later ScheduleBuilder) *)
(*                                                                       *)
(* A null Loc2 is the string "null".  The table is the list of its       *)
(* entries: viaText[crs] is the list of the entries whose At is crs.     *)

\* the stations of the schedules: CRS -> TIPLOC
ViaStations ==
  [crs \in {"HUD", "BGH", "HFX"} |->
     CASE crs = "HUD" -> "HUDDSFD"
       [] crs = "BGH" -> "BRGHOUS"
       [] crs = "HFX" -> "HALIFAX"]

\* a stop as createStop leaves it: a stop without public times has no
\* arrival_time
ViaStop(crs, time) ==
  [arrival_time   |-> time,
   departure_time |-> time,
   stop_id        |-> AtcoCodeOf(ViaStations[crs]),
   stop_code      |-> crs,
   tiploc_code    |-> ViaStations[crs],
   stop_headsign  |-> {}]

\* getFalseDestinationIndex() at index i for an operator other than SW, SE,
\* ME and AW: the rule of Huddersfield and Brighouse
getFalseDestinationIndex(stopTimes, atoc_code, i) ==
  LET huddersfield == findCallingIndex(stopTimes, "HUD", i)
      brighouse    == UNION {findCallingIndex(stopTimes, "BGH", h) : h \in huddersfield}
      again        == UNION {findCallingIndex(stopTimes, "HUD", b) : b \in brighouse}
  IN  IF huddersfield # {} /\ brighouse # {} /\ Truthy(again)
      THEN brighouse
      ELSE {}

\* via_tiplocs.indexOf(tiploc): the first position, counted from 0, or -1
indexOf(list, tiploc) ==
  IF \E p \in 1..Len(list) : list[p] = tiploc
  THEN (CHOOSE p \in 1..Len(list) :
          /\ list[p] = tiploc
          /\ \A q \in 1..(p - 1) : list[q] # tiploc) - 1
  ELSE -1

\* stops.slice(i + 1, false_destination_index ?? -1)
\*      .filter(s => s.arrival_time !== null).map(s => s.tiploc_code)
viaTiplocs(stopTimes, false_destination_index, i) ==
  LET end      == IF false_destination_index = {} THEN -1
                  ELSE CHOOSE f \in false_destination_index : TRUE
      calls    == SelectSeq(slice(stopTimes, i + 1, end),
                            LAMBDA s : s.arrival_time # {})
  IN  [p \in 1..Len(calls) |-> calls[p].tiploc_code]

\* the condition of the reducer on an item
ItemMatches(item, stop_code, dest, via_tiplocs) ==
  LET loc1index == indexOf(via_tiplocs, item.Loc1)
      loc2index == indexOf(via_tiplocs, item.Loc2)
  IN  /\ item.At = stop_code
      /\ item.Dest = dest
      /\ loc1index >= 0
      /\ (item.Loc2 = "null" \/ loc2index >= 0)
      /\ (item.Loc2 = "null" \/ loc2index > loc1index)

\* a reducer that returns every item that matches
reducer_LastMatch(carry, item, stop_code, dest, via_tiplocs) ==
  IF ItemMatches(item, stop_code, dest, via_tiplocs) THEN {item} ELSE carry

\* the reducer: (carry, item) => ...
reducer(carry, item, stop_code, dest, via_tiplocs) ==
  IF ItemMatches(item, stop_code, dest, via_tiplocs)
  THEN IF carry = {} THEN {item}
       ELSE LET held == CHOOSE c \in carry : TRUE
            IN  IF indexOf(via_tiplocs, item.Loc1) < indexOf(via_tiplocs, held.Loc1)
                THEN {item} ELSE carry
  ELSE carry

\* items.reduce(reducer, carry)
RECURSIVE reduce(_, _, _, _, _)
reduce(items, carry, stop_code, dest, via_tiplocs) ==
  IF items = << >> THEN carry
  ELSE reduce(Tail(items), reducer(carry, Head(items), stop_code, dest, via_tiplocs),
              stop_code, dest, via_tiplocs)

\* viaText[stop_code]: the entries under the key, << >> when there is none
viaTextAt(table, stop_code) == SelectSeq(table, LAMBDA item : item.At = stop_code)

\* the body of the loop at index i: the headsign assigned to stops[i]
headsignAt(stopTimes, atoc_code, table, i) ==
  LET stop_code               == stopTimes[i + 1].stop_code
      false_destination_index == getFalseDestinationIndex(stopTimes, atoc_code, i)
      false_destination       == UNION {getStopName(stopTimes[f + 1].stop_id) :
                                          f \in false_destination_index}
      via_tiplocs             == viaTiplocs(stopTimes, false_destination_index, i)
      dest                    == IF false_destination_index = {}
                                 THEN stopTimes[Len(stopTimes)].tiploc_code
                                 ELSE stopTimes[(CHOOSE f \in false_destination_index : TRUE) + 1].tiploc_code
      via                     == reduce(viaTextAt(table, stop_code), {}, stop_code, dest,
                                        via_tiplocs)
  IN  IF via # {}
      THEN {Rendered(OrElse(false_destination,
                            getStopName(stopTimes[Len(stopTimes)].stop_id)))
            \o <<" (">> \o (CHOOSE item \in via : TRUE).Viatext \o <<")">>}
      ELSE false_destination

\* the operators of the schedules: the blocks of SW, SE, ME and AW are
\* guarded by atoc_code and are passed over for these
ViaOperators == {"NT"}

\* the stop lists: consecutive stops at different stations, and either
\* every stop is a public call or the stops at Halifax have no public time
ViaStopLists ==
  LET crsLists == UNION {[1..n -> DOMAIN ViaStations] : n \in 2..MaxViaStops}
  IN  {[k \in 1..Len(list) |->
          ViaStop(list[k], IF list[k] = "HFX" /\ passing THEN {} ELSE {600 + 10 * k})] :
         list \in {l \in crsLists : \A k \in 1..(Len(l) - 1) : l[k] # l[k + 1]},
         passing \in BOOLEAN}

\* the entries a table is made of; each has a Viatext of its own
ViaEntries ==
  {[At |-> at, Dest |-> dest, Loc1 |-> locs[1], Loc2 |-> locs[2],
    Viatext |-> <<"via", locs[1], locs[2], "for", dest>>] :
     at \in {"HUD", "BGH"}, dest \in {"HUDDSFD", "BRGHOUS"},
     locs \in {<<"HALIFAX", "null">>, <<"HALIFAX", "BRGHOUS">>,
               <<"BRGHOUS", "null">>, <<"BRGHOUS", "HALIFAX">>}}

\* the via-text tables: at most MaxViaEntries entries
ViaTables == UNION {[1..n -> ViaEntries] : n \in 0..MaxViaEntries}

ViaInit ==
  /\ OvStart
  /\ MgStart
  /\ LdStart
  /\ RunStart
  /\ AsStart
  /\ StStart
  /\ calThis = ScheduleCalendar(1, 1, ALL_DAYS, {})
  /\ calOther = ScheduleCalendar(1, 1, ALL_DAYS, {})
  /\ calOp = "new"
  /\ calArgs = NoArgs
  /\ calOverlap = "-"
  /\ calOut = {}
  /\ hsOperator \in ViaOperators
  /\ hsStops \in ViaStopLists
  /\ hsI = 0
  /\ hsRule = "via"
  /\ hsViaText \in ViaTables

\* one turn of the loop over the stops: stop.stop_headsign = ...; ++i
ViaTextStep ==
  /\ hsRule = "via"
  /\ hsI < Len(hsStops)
  /\ hsStops' = [hsStops EXCEPT ![hsI + 1].stop_headsign =
                   headsignAt(hsStops, hsOperator, hsViaText, hsI)]
  /\ hsI' = hsI + 1
  /\ UNCHANGED <<hsOperator, hsRule, hsViaText, calVars, ovVars, mgVars, ldVars,
                 cpVars, runVars, asVars, stVars>>

ViaNext == ViaTextStep

SpecViaText == ViaInit /\ [][ViaNext]_vars

-----------------------------------------------------------------------------
(* Claims about the calendar algebra, checked under SpecCalendar *)

\* the days both calendars operate on
SharedDaySet(a, b) == OperatingDays(a) \cap OperatingDays(b)

\* C4: a.getOverlap(b) is Short exactly when some day d with
\* max(a.runsFrom, b.runsFrom) <= d <= min(a.runsTo, b.runsTo) has both weekday
\* masks on and is in neither exclusion set, and None otherwise; hence
\* a.getOverlap(b) = b.getOverlap(a).
C4_OverlapIffSharedDay ==
  calOp = "getOverlap" =>
    /\ calOverlap \in {"Short", "None"}
    /\ calOverlap = "Short" <=>
         \E d \in DateRange :
           /\ Max(calThis.runsFrom, calOther.runsFrom) <= d
           /\ d <= Min(calThis.runsTo, calOther.runsTo)
           /\ calThis.days[Weekday(d)] = 1
           /\ calOther.days[Weekday(d)] = 1
           /\ d \notin calThis.excludeDays
           /\ d \notin calOther.excludeDays
    /\ getOverlap(calOther, calThis) = calOverlap

\* C4 witness: the two ranges share exactly their boundary day and getOverlap
\* answered Short
C4_Witness ==
  /\ calOp = "getOverlap"
  /\ calOverlap = "Short"
  /\ calThis.runsFrom < calThis.runsTo
  /\ calThis.runsTo = calOther.runsFrom
  /\ calOther.runsFrom < calOther.runsTo

\* C5 as stated: the exclusion set of c.addExcludeDays(o) is never smaller
\* than the exclusion set of c, and the result operates exactly on c's
\* operating days minus the days shared with o.
C5_Original ==
  calOp = "addExcludeDays" =>
    \A r \in calOut :
      /\ Cardinality(r.excludeDays) >= Cardinality(calThis.excludeDays)
      /\ OperatingDays(r) = OperatingDays(calThis) \ SharedDaySet(calThis, calOther)

\* C5 amended: the result of c.addExcludeDays(o) operates exactly on c's
\* operating days minus the days shared with o (a subset of c's days); its
\* exclusion set holds only exclusions of c and shared days, and keeps every
\* exclusion of c that lies strictly inside the result's tightened range.
C5_AddExcludeDaysSubset ==
  calOp = "addExcludeDays" =>
    \A r \in calOut :
      /\ OperatingDays(r) = OperatingDays(calThis) \ SharedDaySet(calThis, calOther)
      /\ OperatingDays(r) \subseteq OperatingDays(calThis)
      /\ r.excludeDays \subseteq calThis.excludeDays \cup SharedDaySet(calThis, calOther)
      /\ \A d \in calThis.excludeDays :
           (r.runsFrom < d /\ d < r.runsTo) => d \in r.excludeDays
      /\ r.days = calThis.days

\* C5 witness: addExcludeDays returned a calendar that lost an exclusion of
\* the receiver because the range was tightened past it
C5_Witness ==
  /\ calOp = "addExcludeDays"
  /\ \E r \in calOut :
       /\ Cardinality(r.excludeDays) < Cardinality(calThis.excludeDays)
       /\ r.runsTo < calThis.runsTo
       /\ OperatingDays(r) # {}

\* C6: every calendar returned by addExcludeDays or clone has
\* runsFrom <= runsTo, operates on runsFrom and on runsTo, and excludes only
\* dates inside its range; an exclusion on the first or last day tightens the
\* range and is not stored.
C6_ClonedCalendarTight ==
  calOp \in {"addExcludeDays", "clone"} =>
    \A r \in calOut :
      /\ r.runsFrom <= r.runsTo
      /\ RunsOn(r, r.runsFrom)
      /\ RunsOn(r, r.runsTo)
      /\ \A d \in r.excludeDays : r.runsFrom < d /\ d < r.runsTo

\* C6 witness: the first and the last day of the receiver were excluded, and
\* the result has a shorter range at both ends and an empty exclusion set
C6_Witness ==
  /\ calOp = "addExcludeDays"
  /\ calThis.runsFrom \in SharedDaySet(calThis, calOther)
  /\ calThis.runsTo \in SharedDaySet(calThis, calOther)
  /\ \E r \in calOut :
       /\ r.runsFrom > calThis.runsFrom
       /\ r.runsTo < calThis.runsTo
       /\ r.excludeDays = {}

\* C7: c.addExcludeDays(o) is null exactly when no operating day of c is left
\* once the days shared with o are removed.
C7_NullIffNoDayLeft ==
  calOp = "addExcludeDays" =>
    (calOut = {} <=> OperatingDays(calThis) \ SharedDaySet(calThis, calOther) = {})

\* C7 witness: a calendar with several operating days lost all of them to the
\* other calendar and addExcludeDays returned null
C7_Witness ==
  /\ calOp = "addExcludeDays"
  /\ calOut = {}
  /\ Cardinality(OperatingDays(calThis)) >= 2

\* C8: shiftForward and shiftBackward are inverses, each moves runsFrom,
\* runsTo and every excluded date by one day and rotates the weekday mask by
\* one position in the same direction, wrapping Saturday <-> Sunday.
C8_ShiftInverse ==
  /\ calOp = "shiftForward" =>
       \A r \in calOut :
         /\ shiftBackward(r) = calThis
         /\ r.runsFrom = calThis.runsFrom + 1
         /\ r.runsTo = calThis.runsTo + 1
         /\ r.excludeDays = {d + 1 : d \in calThis.excludeDays}
         /\ \A i \in Weekdays : r.days[(i + 1) % 7] = calThis.days[i]
         /\ \A d \in DateRange : RunsOn(calThis, d) <=> RunsOn(r, d + 1)
  /\ calOp = "shiftBackward" =>
       \A r \in calOut :
         /\ shiftForward(r) = calThis
         /\ r.runsFrom = calThis.runsFrom - 1
         /\ r.runsTo = calThis.runsTo - 1
         /\ r.excludeDays = {d - 1 : d \in calThis.excludeDays}
         /\ \A i \in Weekdays : r.days[i] = calThis.days[(i + 1) % 7]
         /\ \A d \in DateRange : RunsOn(calThis, d) <=> RunsOn(r, d - 1)

\* C8 witness: a calendar with an exclusion whose mask has Saturday on was
\* shifted forward, which wraps Saturday to Sunday
C8_Witness ==
  /\ calOp = "shiftForward"
  /\ calThis.days = Days({1, 3, 5, 6})
  /\ calThis.excludeDays # {}
  /\ \E r \in calOut : r.days = Days({0, 2, 4, 6})

-----------------------------------------------------------------------------
(* Claims about applyOverlays, checked under SpecOverlay *)

\* C1: in the index applyOverlays returns, any two distinct records of a
\* TUID's list have calendars whose getOverlap is None: no day is operated by
\* two records of the same TUID.
C1_NoOverlapInOutput ==
  ovReturned =>
    \A t \in TUIDs :
      \A i \in 1..Len(schedulesByTuid[t]), j \in 1..Len(schedulesByTuid[t]) :
        i # j =>
          getOverlap(schedulesByTuid[t][i].calendar,
                     schedulesByTuid[t][j].calendar) = "None"

\* C2: when a non-Permanent record R has been processed, applyOverlay was
\* called on every record indexed under R's TUID before it, and no record
\* indexed before R under that TUID still operates on a day R operates on.
C2_EveryBaseOverlaid ==
  \A r \in ovLast :
    r.stp # "P" =>
      /\ ovVisited = {ovBefore[i].id : i \in 1..Len(ovBefore)}
      /\ \A i \in 1..Len(schedulesByTuid[r.tuid]) :
           schedulesByTuid[r.tuid][i].id # r.id =>
             getOverlap(schedulesByTuid[r.tuid][i].calendar, r.calendar) = "None"

-----------------------------------------------------------------------------
(* Claims about mergeSchedules, checked under SpecFlatten *)

\* a trip id carried by two of the schedules read and not skipped
DuplicateSeen ==
  {mgSeen[i] : i \in {k \in 1..Len(mgSeen) :
                        \E j \in 1..Len(mgSeen) : j # k /\ mgSeen[j] = mgSeen[k]}}

\* C3: the list mergeSchedules returns has pairwise distinct trip ids and
\* holds every schedule that was not skipped; when two schedules that are not
\* skipped carry the same trip id, an error naming that trip id is thrown and
\* no list is returned.
C3_UniqueTripIdsOrThrow ==
  /\ mgState = "returned" =>
       /\ \A i \in 1..Len(mgOut), j \in 1..Len(mgOut) :
            i # j => mgOut[i].tripId # mgOut[j].tripId
       /\ DuplicateSeen = {}
       /\ [i \in 1..Len(mgOut) |-> mgOut[i].tripId] = mgSeen
       /\ \A i \in 1..Len(mgOut) : HasPublicCall(mgOut[i].stopTimes)
  /\ DuplicateSeen # {} =>
       /\ mgState = "thrown"
       /\ mgError = DuplicateSeen
       /\ mgOut = << >>
  /\ mgState = "thrown" => (mgError # {} /\ mgError = DuplicateSeen /\ mgOut = << >>)
  /\ mgState = "loop" => mgOut = << >>

\* C3 witness: after a skipped schedule and two kept ones, a schedule with a
\* trip id kept before was read and the error was thrown
C3_Witness ==
  /\ mgState = "thrown"
  /\ mgSkipped >= 1
  /\ Len(mgSeen) = 3
  /\ mgSeen[3] = mgSeen[1]
  /\ mgError = {mgSeen[1]}
  /\ mgTuid = 2

-----------------------------------------------------------------------------
(* Claims about the stop lists of the builder and the rows written *)

\* the k-th element of the list has stop_sequence k
FromOne(list) == \A k \in 1..Len(list) : list[k].stop_sequence = k

\* the stop list being read and every schedule built, until its rows are
\* written, number their stops 1, 2, 3, ...
BuilderFromOne ==
  /\ FromOne(stops)
  /\ \A k \in 1..Len(schedules) : k >= copyNext => FromOne(schedules[k].stopTimes)

\* C9: in every schedule built by loadSchedules and in the stop_time rows
\* written for every trip, the k-th stop has stop_sequence k
C9_StopSequenceFromOne ==
  /\ BuilderFromOne
  /\ \A w \in 1..Len(stopTimesFile) : FromOne(stopTimesFile[w].rows)

\* C10: in every schedule built from rows in travel order, for consecutive
\* stops i and i+1 with times, the departure of stop i+1 is not before the
\* arrival of stop i
C10_TimesNonDecreasing ==
  \A k \in 1..Len(schedules) :
    LET list == schedules[k].stopTimes
    IN  \A i \in 1..(Len(list) - 1) :
          \A a \in list[i].arrival_time, d \in list[i + 1].departure_time : d >= a

\* the step handles the first row of the stream
FirstRowHandled == prevRow = {} /\ prevRow' # {}

\* the step handles the first row of a later schedule
LaterScheduleEntered ==
  prevRow # {} /\ prevRow' # {} /\ \A r \in prevRow' : EntersSchedule(prevRow, r)

\* on entering a schedule after the first, departureHour is read from its
\* first row; through the first schedule of the stream it stays 4
DepartureHourOnLaterEntry ==
  [][/\ LaterScheduleEntered => \A r \in prevRow' : departureHour' = EntryHour(r)
     /\ FirstRowHandled => departureHour' = 4]_vars

\* C18: on entering every schedule of the row stream, the first schedule of
\* the stream included, departureHour is the hour of the public arrival time
\* of the schedule's first row if set, else of its public departure time,
\* else 4
C18_DepartureHourOnEntry ==
  [][(FirstRowHandled \/ LaterScheduleEntered) =>
       \A r \in prevRow' : departureHour' = EntryHour(r)]_vars

\* no two adjacent stops of the list have the same CRS
NoAdjacentSameCRS(list) ==
  \A i \in 1..(Len(list) - 1) : list[i].stop_code # list[i + 1].stop_code

\* the step handles a row of the schedule and of the CRS of the row before it
SameCallHandled ==
  /\ rowCount' = rowCount + 1
  /\ \E p \in prevRow, r \in prevRow' : p.id = r.id /\ p.crs_code = r.crs_code

\* the step handles any other row
OtherRowHandled ==
  /\ rowCount' = rowCount + 1
  /\ \A p \in prevRow, r \in prevRow' : p.id # r.id \/ p.crs_code # r.crs_code

\* the list of the schedule the row handled belongs to, before the row
StopsBefore ==
  IF \E p \in prevRow, r \in prevRow' : p.id # r.id THEN << >> ELSE stops

\* the row handled is dropped, or it replaces the last stop in place, which
\* its pickup_type or drop_off_type being 0 allows
DroppedOrReplaced ==
  \/ stops' = stops
  \/ /\ Len(stops') = Len(stops)
     /\ Len(stops) > 0
     /\ \A i \in 1..(Len(stops) - 1) : stops'[i] = stops[i]
     /\ stops'[Len(stops)].stop_sequence = stops[Len(stops)].stop_sequence
     /\ \A r \in prevRow' : stops'[Len(stops)].stop_code = r.crs_code
     /\ \/ stops'[Len(stops)].pickup_type = 0
        \/ stops'[Len(stops)].drop_off_type = 0

\* the row handled yields exactly one stop, added at the end of the list
YieldsOneStop ==
  /\ Len(stops') = Len(StopsBefore) + 1
  /\ \A i \in 1..Len(StopsBefore) : stops'[i] = StopsBefore[i]
  /\ \A r \in prevRow' : stops'[Len(stops')].stop_code = r.crs_code

\* no two adjacent stops of the list being read or of a built schedule have
\* the same CRS
AdjacentStopsDiffer ==
  /\ NoAdjacentSameCRS(stops)
  /\ \A k \in 1..Len(schedules) : NoAdjacentSameCRS(schedules[k].stopTimes)

\* C19, as stated: a row of the schedule and of the CRS of the row before it
\* replaces the last stop in place only if its pickup_type or drop_off_type is
\* 0 and is otherwise dropped; no two adjacent stops of a built schedule have
\* the same CRS; and every other row yields exactly one stop
C19_Original ==
  /\ []AdjacentStopsDiffer
  /\ [][/\ SameCallHandled => DroppedOrReplaced
        /\ OtherRowHandled => YieldsOneStop]_vars

\* C19, amended: as stated, but every other row yields exactly one stop unless
\* its schedule is a cancellation, whose rows yield no stop
C19_SameCallReplacesOrDrops ==
  /\ []AdjacentStopsDiffer
  /\ [][/\ SameCallHandled => DroppedOrReplaced
        /\ OtherRowHandled =>
             \A r \in prevRow' :
               IF r.stp_indicator = "C" THEN stops' = StopsBefore
               ELSE YieldsOneStop]_vars

\* three rows of one schedule have been handled and have left two stops: one
\* of the rows was at the CRS of the row before it
C19_Witness ==
  /\ rowCount = 3
  /\ Len(schedules) = 0
  /\ Len(stops) = 2
  /\ stops[1].stop_code # stops[2].stop_code
  /\ stops[2].pickup_type = 0

\* a stop but for its stop_sequence
WithoutSequence(stop) == [stop EXCEPT !.stop_sequence = 0]

\* once the schedules are built, copyTrips changes no field of a schedule but
\* its stop list, and of a stop nothing but its stop_sequence
OnlySequenceChangedInPlace ==
  [][loadState = "resolved" =>
       /\ Len(schedules') = Len(schedules)
       /\ \A k \in 1..Len(schedules) :
            /\ [schedules'[k] EXCEPT !.stopTimes = << >>] =
                 [schedules[k] EXCEPT !.stopTimes = << >>]
            /\ Len(schedules'[k].stopTimes) = Len(schedules[k].stopTimes)
            /\ \A i \in 1..Len(schedules[k].stopTimes) :
                 WithoutSequence(schedules'[k].stopTimes[i]) =
                   WithoutSequence(schedules[k].stopTimes[i])]_vars

\* C22: once the schedules exist, no later pass (here the output of the trips
\* and of the stop times) changes any field of an existing Schedule or
\* StopTime object
C22_NoChangeInPlace ==
  [][loadState = "resolved" =>
       /\ Len(schedules') = Len(schedules)
       /\ \A k \in 1..Len(schedules) : schedules'[k] = schedules[k]]_vars

\* the rows of stop_times.txt written for the schedule at a position
RowsWrittenFor(position) ==
  {stopTimesFile[m].rows : m \in {j \in 1..Len(stopTimesFile) :
                                      stopTimesFile[j].schedule = position}}

\* The schedule of every trip written to trips.txt has at least two stops
\* in its stop list, public or not.
WrittenTripHasTwoStops ==
  \A n \in 1..Len(tripsFile) : Len(schedules[tripsFile[n].schedule].stopTimes) >= 2

\* C28: every trip written to trips.txt has at least two rows in
\* stop_times.txt: a schedule is written only if at least two of its stops
\* remain after the stops without a CRS and the stops without a time are
\* removed.  The schedules are those the flattener keeps: they have a
\* public call.
C28_WrittenTripHasTwoRows ==
  \A n \in 1..Len(tripsFile) :
    HasPublicCall(schedules[tripsFile[n].schedule].stopTimes) =>
      /\ RowsWrittenFor(tripsFile[n].schedule) # {}
      /\ \A rows \in RowsWrittenFor(tripsFile[n].schedule) : Len(rows) >= 2

-----------------------------------------------------------------------------
(* Claims about route grouping and shapes *)

\* the grouping key of a route
RouteTuple(route) ==
  <<route.agency_id, route.route_type, route.route_short_name, route.route_long_name,
    route.route_color, route.route_text_color>>

\* the grouping key of the route of the schedule of a trip written
TripTuple(t) == RouteTuple(toRoute(schedules[t.schedule]))

\* two trips written with one grouping key have one route_id
SameTupleSameRoute ==
  \A i, j \in 1..Len(tripsFile) :
    TripTuple(tripsFile[i]) = TripTuple(tripsFile[j])
      => tripsFile[i].trip.route_id = tripsFile[j].trip.route_id

\* C11: two trips written have the same route_id if and only if their routes
\* have the same grouping key, and no route_id is written to routes.txt for
\* two grouping keys
C11_RouteIdIffTuple ==
  /\ \A i, j \in 1..Len(tripsFile) :
       (tripsFile[i].trip.route_id = tripsFile[j].trip.route_id)
         <=> (TripTuple(tripsFile[i]) = TripTuple(tripsFile[j]))
  /\ \A i, j \in 1..Len(routeFile) :
       routeFile[i].route_id = routeFile[j].route_id
         => RouteTuple(routeFile[i]) = RouteTuple(routeFile[j])

\* C12: two schedules of the list have the same shape id if and only if their
\* stop lists have the same stop ids in the same order; the points of a shape
\* id are written at most once
C12_ShapeIdIffStopIds ==
  /\ \A i, j \in 1..Len(schedules) :
       (getShapeId(schedules[i]) = getShapeId(schedules[j]))
         <=> (StopIds(schedules[i].stopTimes) = StopIds(schedules[j].stopTimes))
  /\ \A i, j \in 1..Len(shapesFile) :
       (\E k \in 1..Len(shapesFile[i]), l \in 1..Len(shapesFile[j]) :
          shapesFile[i][k].shape_id = shapesFile[j][l].shape_id) => i = j

\* C12 witness: three trips are written, two of them with one stop list, and
\* the shape points of two shapes are written
C12_Witness ==
  /\ Len(tripsFile) = 3
  /\ Len(shapesFile) = 2
  /\ \E i, j \in 1..Len(schedules) :
       /\ i # j
       /\ StopIds(schedules[i].stopTimes) = <<<<"X">>, <<"Y">>, <<"X">>>>
       /\ StopIds(schedules[j].stopTimes) = <<<<"X", "Y">>, <<"X">>>>

-----------------------------------------------------------------------------
(* Claims about errors of the row stream *)

\* C13: once the schedule row stream has emitted an error, run does not
\* resolve and no record is written to any sink
C13_StreamErrorEmitsNothing ==
  loadState = "rejected" =>
    /\ runState # "resolved"
    /\ \A f \in Files : sinkRecords[f] = 0
    /\ tripsFile = << >> /\ stopTimesFile = << >>
    /\ shapesFile = << >> /\ routeFile = << >>

\* once the stream has emitted an error, run does not resolve and writes no
\* trip, stop time, shape, route or calendar record
StreamErrorWritesNoTrip ==
  loadState = "rejected" =>
    /\ runState # "resolved"
    /\ \A f \in CalendarFiles : sinkRecords[f] = 0
    /\ tripsFile = << >> /\ stopTimesFile = << >>
    /\ shapesFile = << >> /\ routeFile = << >>

\* close has been requested: repository.end() or output.end() was called
CloseRequested == repositoryEnded \/ outputEnded

\* every copy task has settled and copyTrips has written its files
AllTasksSettled ==
  /\ \A f \in Files : copies[f] \in {"finished", "rejected"}
  /\ copyDone

\* The repository and the output are closed only after the associations and
\* the schedules have been loaded.
ClosedAfterLoading ==
  CloseRequested => associationsP = "resolved" /\ loadState = "resolved"

\* C27: repository.end() and output.end() are called only after every query
\* started by the run has resolved and every copy task and copyTrips has
\* finished writing: no query or write is pending once close is requested.
C27_ClosedAfterAllTasks == CloseRequested => AllTasksSettled

\* Under fair scheduling run comes to reject or to request the close.
RejectsOrCloses == <>(runState = "rejected" \/ CloseRequested)

\* C29: on every execution of run, those in which the associations, the
\* schedules or a copy task reject included, repository.end() and
\* output.end() are eventually called.
C29_EventuallyClosed == <>(repositoryEnded /\ outputEnded)

-----------------------------------------------------------------------------
(* Claims about Association.apply, checked under SpecAssociation *)

\* the base or the associated schedule has no stop at assocLocation
JunctionMissing ==
  \/ stopAt(asBase, asThis.assocLocation) = {}
  \/ stopAt(asAssoc, asThis.assocLocation) = {}

\* without the junction stop apply returns the associated schedule itself
\* first, and every schedule it returns has its trip id, TUID and stops
MissingJunctionMergesNothing ==
  (asApplied /\ JunctionMissing) =>
    /\ Len(asOut) >= 1
    /\ asOut[1] = asAssoc
    /\ \A i \in 1..Len(asOut) :
         /\ asOut[i].tripId = asAssoc.tripId
         /\ asOut[i].stopTimes = asAssoc.stopTimes

\* C14: when the base or the associated schedule has no stop at the
\* association's assocLocation, apply emits the un-merged associated schedule
\* unchanged (same id, trip id, stops and calendar) and nothing else: no
\* merged schedule and no other copy of the associated schedule
C14_MissingJunctionEmitsAssocOnly ==
  (asApplied /\ JunctionMissing) => asOut = <<asAssoc>>

\* the merged schedules among those apply returned: the junction stop being
\* present, the schedule under the joined TUID
MergedSchedules ==
  IF JunctionMissing THEN {}
  ELSE {asOut[i] : i \in {j \in 1..Len(asOut) : asOut[j].tuid # asAssoc.tuid}}

\* the day of the associated schedule that a day of the merged schedule
\* stands for: the merged calendar of a Next association is a day behind
AssocDayOf(d) == IF asThis.dateIndicator = DateIndicator.Next THEN d + 1 ELSE d

\* the day of the association that a day of the merged schedule stands for:
\* the calendar of a Previous association is shifted a day backward
AssociationDayOf(d) ==
  IF asThis.dateIndicator = DateIndicator.Previous THEN d + 1 ELSE d

\* the days on which the association and the associated schedule both operate,
\* as days of the merged schedule
IntersectionDays ==
  {d \in DateRange : /\ RunsOn(asThis.calendar, AssociationDayOf(d))
                     /\ RunsOn(asAssoc.calendar, AssocDayOf(d))}

\* the merged schedule operates only on days of the associated schedule that
\* lie in the date range of the association and are not excluded from it; the
\* weekday mask of the association is not read
MergedWithinAssocAndRange ==
  asApplied =>
    \A merged \in MergedSchedules :
      \A d \in OperatingDays(merged.calendar) :
        /\ RunsOn(asAssoc.calendar, AssocDayOf(d))
        /\ asThis.calendar.runsFrom <= AssociationDayOf(d)
        /\ AssociationDayOf(d) <= asThis.calendar.runsTo
        /\ AssociationDayOf(d) \notin asThis.calendar.excludeDays

\* C16: the calendar of a merged schedule is the intersection of the
\* association's calendar (shifted backward for Previous) with the associated
\* schedule's calendar: the merged schedule operates on a day only if both
\* operate on the corresponding day, and no merged schedule is emitted when
\* they share no day
C16_MergedCalendarIsIntersection ==
  (asApplied /\ ~JunctionMissing) =>
    /\ \A merged \in MergedSchedules :
         OperatingDays(merged.calendar) \subseteq IntersectionDays
    /\ IntersectionDays = {} => MergedSchedules = {}

\* the stand-alone clones of the associated schedule among the schedules
\* apply returned
StandAloneClones ==
  {asOut[i] : i \in {j \in 1..Len(asOut) : asOut[j].tuid = asAssoc.tuid}}

\* the merged schedule operates the associated service of day d
MergedOperates(d) ==
  \E merged \in MergedSchedules, m \in DateRange :
    AssocDayOf(m) = d /\ RunsOn(merged.calendar, m)

\* the stand-alone clone operates the associated service of day d
StandAloneOperates(d) == \E alone \in StandAloneClones : RunsOn(alone.calendar, d)

\* every day of the associated schedule is operated by the merged schedule or
\* by the stand-alone clone, and the clone operates on no other day
EveryAssocDayOperated ==
  (asApplied /\ ~JunctionMissing) =>
    \A d \in DateRange :
      /\ RunsOn(asAssoc.calendar, d) => MergedOperates(d) \/ StandAloneOperates(d)
      /\ StandAloneOperates(d) => RunsOn(asAssoc.calendar, d)

\* C17: with the junction stop present, the stand-alone clone has the merged
\* days removed: no day of the associated service is operated by both the
\* merged schedule and the stand-alone clone, and every day on which the
\* original associated schedule operated is operated by exactly one of them
C17_MergedDaysRemovedFromClone ==
  (asApplied /\ ~JunctionMissing) =>
    \A d \in DateRange :
      /\ ~(MergedOperates(d) /\ StandAloneOperates(d))
      /\ RunsOn(asAssoc.calendar, d) => MergedOperates(d) \/ StandAloneOperates(d)

\* the association is a split, resp. a join
IsSplit == asThis.assocType = AssociationType.Split

IsJoin == asThis.assocType = AssociationType.Join

\* the source stops of a merged schedule: the stops before the junction, of
\* the base for a split and else of the associated schedule, and the stops
\* after it, of the other schedule
SourceStart ==
  IF IsSplit THEN before(asBase, asThis.assocLocation)
  ELSE before(asAssoc, asThis.assocLocation)

SourceEnd ==
  IF IsSplit THEN after(asAssoc, asThis.assocLocation)
  ELSE after(asBase, asThis.assocLocation)

\* the stops at the junction: the one the merged schedule arrives with and the
\* one it departs with
ArrivingStop ==
  IF IsSplit THEN stopAt(asBase, asThis.assocLocation)
  ELSE stopAt(asAssoc, asThis.assocLocation)

DepartingStop ==
  IF IsSplit THEN stopAt(asAssoc, asThis.assocLocation)
  ELSE stopAt(asBase, asThis.assocLocation)

\* the merged schedule has the source stops in order, the merge stop between
\* them
MergedStopsInOrder(merged) ==
  /\ Len(merged.stopTimes) = Len(SourceStart) + 1 + Len(SourceEnd)
  /\ \A i \in 1..Len(SourceStart) :
       merged.stopTimes[i].tiploc_code = SourceStart[i].tiploc_code
  /\ merged.stopTimes[Len(SourceStart) + 1].tiploc_code = asThis.assocLocation
  /\ \A i \in 1..Len(SourceEnd) :
       merged.stopTimes[Len(SourceStart) + 1 + i].tiploc_code = SourceEnd[i].tiploc_code

\* the flags of the merge stop: pickup_type 1 for a join, else that of the
\* departing stop; drop_off_type 1 for a split, else that of the arriving stop
MergeStopFlags(merged) ==
  LET stop == merged.stopTimes[Len(SourceStart) + 1]
  IN  /\ \A d \in DepartingStop :
           stop.pickup_type = IF IsJoin THEN 1 ELSE d.pickup_type
      /\ \A a \in ArrivingStop :
           stop.drop_off_type = IF IsSplit THEN 1 ELSE a.drop_off_type

\* the merge stop has the flags stated; of the other stops, a split also
\* forbids alighting at every stop before the junction and a join forbids
\* boarding at every stop after it
MergedFlagsAsCloned ==
  asApplied =>
    \A merged \in MergedSchedules :
      /\ MergedStopsInOrder(merged)
      /\ MergeStopFlags(merged)
      /\ \A i \in 1..Len(SourceStart) :
           /\ merged.stopTimes[i].pickup_type = SourceStart[i].pickup_type
           /\ merged.stopTimes[i].drop_off_type =
                IF IsSplit THEN 1 ELSE SourceStart[i].drop_off_type
      /\ \A i \in 1..Len(SourceEnd) :
           /\ merged.stopTimes[Len(SourceStart) + 1 + i].pickup_type =
                IF IsJoin THEN 1 ELSE SourceEnd[i].pickup_type
           /\ merged.stopTimes[Len(SourceStart) + 1 + i].drop_off_type =
                SourceEnd[i].drop_off_type

\* C20: in a merged schedule the forcing of boarding flags applies to the
\* merge stop and only to it: the merge stop has pickup_type 1 for a join and
\* drop_off_type 1 for a split, its other flag being the departing stop's
\* pickup_type, resp. the arriving stop's drop_off_type, and every other stop
\* keeps the pickup_type and drop_off_type of the stop it was cloned from
C20_OnlyMergeStopForced ==
  asApplied =>
    \A merged \in MergedSchedules :
      /\ MergeStopFlags(merged)
      /\ \A i \in 1..Len(SourceStart) :
           /\ merged.stopTimes[i].pickup_type = SourceStart[i].pickup_type
           /\ merged.stopTimes[i].drop_off_type = SourceStart[i].drop_off_type
      /\ \A i \in 1..Len(SourceEnd) :
           /\ merged.stopTimes[Len(SourceStart) + 1 + i].pickup_type =
                SourceEnd[i].pickup_type
           /\ merged.stopTimes[Len(SourceStart) + 1 + i].drop_off_type =
                SourceEnd[i].drop_off_type

\* the stops after the merge point are those of the next day: a Next-day
\* split or a Previous-day join
EndsNextDay ==
  \/ IsSplit /\ asThis.dateIndicator = DateIndicator.Next
  \/ IsJoin /\ asThis.dateIndicator = DateIndicator.Previous

\* a nullable time 24 hours later
DayLater(time) == {t + 1440 : t \in time}

\* C21: in a merged schedule every stop after the merge point has its non-null
\* arrival and departure times advanced by exactly 24 hours when the
\* association is a Next-day split or a Previous-day join, and unchanged in
\* every other combination; the stops before the merge point keep their times
C21_EndStopsNextDay ==
  asApplied =>
    \A merged \in MergedSchedules :
      /\ Len(merged.stopTimes) = Len(SourceStart) + 1 + Len(SourceEnd)
      /\ \A i \in 1..Len(SourceStart) :
           /\ merged.stopTimes[i].arrival_time = SourceStart[i].arrival_time
           /\ merged.stopTimes[i].departure_time = SourceStart[i].departure_time
      /\ \A i \in 1..Len(SourceEnd) :
           LET stop == merged.stopTimes[Len(SourceStart) + 1 + i]
           IN  /\ stop.arrival_time =
                    IF EndsNextDay THEN DayLater(SourceEnd[i].arrival_time)
                    ELSE SourceEnd[i].arrival_time
               /\ stop.departure_time =
                    IF EndsNextDay THEN DayLater(SourceEnd[i].departure_time)
                    ELSE SourceEnd[i].departure_time

\* a Previous-day join has been merged: a stop after the merge point has a
\* time of the next day
C21_Witness ==
  /\ asApplied
  /\ IsJoin
  /\ asThis.dateIndicator = DateIndicator.Previous
  /\ \E merged \in MergedSchedules :
       /\ Len(SourceStart) >= 1
       /\ Len(SourceEnd) >= 1
       /\ \E t \in merged.stopTimes[Len(merged.stopTimes)].arrival_time : t >= 1440

\* the schedule's trip id is made of its own tuid and the dates of its own
\* calendar
TripIdIsCurrent(schedule) ==
  schedule.tripId = TripIdOf(schedule.tuid, schedule.calendar)

\* The merged schedule's trip id is made of its tuid and the dates of its
\* calendar.
MergedTripIdIsCurrent ==
  asApplied => \A merged \in MergedSchedules : TripIdIsCurrent(merged)

\* C25: every schedule that exists after association application, the
\* merged schedule and the stand-alone clone of the associated schedule
\* included, has the trip id {tuid}_{runsFrom}_{runsTo} of its own tuid and
\* of its own current calendar.
C25_TripIdOfOwnCalendar ==
  asApplied => \A i \in 1..Len(asOut) : TripIdIsCurrent(asOut[i])

\* time a is not after time b; a null time is after and before every time
NotAfter(a, b) == \A x \in a, y \in b : x <= y

\* the times of the merged schedule do not go back at the junction: the
\* merge stop arrives no earlier than the stop before it departs, departs
\* no earlier than it arrives and no later than the stop after it arrives
JunctionInOrder(merged) ==
  LET junction == Len(SourceStart) + 1
      mergeStop == merged.stopTimes[junction]
  IN  /\ junction > 1 =>
           NotAfter(merged.stopTimes[junction - 1].departure_time, mergeStop.arrival_time)
      /\ NotAfter(mergeStop.arrival_time, mergeStop.departure_time)
      /\ junction < Len(merged.stopTimes) =>
           NotAfter(mergeStop.departure_time, merged.stopTimes[junction + 1].arrival_time)

\* the times of the stops of a source schedule never go back
NonDecreasing(stopTimes) ==
  \A i \in 1..Len(stopTimes) :
    /\ NotAfter(stopTimes[i].arrival_time, stopTimes[i].departure_time)
    /\ i < Len(stopTimes) =>
         NotAfter(stopTimes[i].departure_time, stopTimes[i + 1].arrival_time)

\* the train that arrives at the junction arrives there no later than the
\* train that departs from it departs
MeetInOrder ==
  \A arriving \in ArrivingStop, departing \in DepartingStop :
    NotAfter(arriving.arrival_time, departing.departure_time)

\* When the two trains meet in order and the merge stop and the stops after
\* it are moved to the next day together, or none of them is, the times do
\* not go back at the junction.
JunctionInOrderWhenMovedTogether ==
  asApplied /\ MeetInOrder /\ (asThis.dateIndicator = DateIndicator.Same \/ EndsNextDay) =>
    \A merged \in MergedSchedules : JunctionInOrder(merged)

\* C30: for every association type and date indicator, when the times of
\* the two source schedules are non-decreasing, the times of the merged
\* schedule are non-decreasing across the junction.
C30_JunctionInOrder ==
  asApplied /\ NonDecreasing(asBase.stopTimes) /\ NonDecreasing(asAssoc.stopTimes) =>
    \A merged \in MergedSchedules : JunctionInOrder(merged)

-----------------------------------------------------------------------------
(* Claims about createStop, checked under SpecStops *)

\* the two-character codes of the activity text of the row given to createStop
GivenCodes == SplitCodes(csRow.activity)

\* createStop reads "T ", "TB", "TF" and "U " as boarding and "T ", "TB", "TF"
\* and "D " as alighting: a request stop is coordinated (3) both ways, else a
\* flag is 0 iff one of its codes is present and "N " is absent
CreateStopFlags ==
  \A stop \in csStop :
    LET hidden   == Includes(GivenCodes, <<"N", " ">>)
        request  == Includes(GivenCodes, <<"R", " ">>)
        both     == {<<"T", " ">>, <<"T", "B">>, <<"T", "F">>}
        boards   == \E a \in both \cup {<<"U", " ">>} : Includes(GivenCodes, a)
        alights  == \E a \in both \cup {<<"D", " ">>} : Includes(GivenCodes, a)
    IN  /\ stop.pickup_type =
             IF request THEN 3 ELSE IF boards /\ ~hidden THEN 0 ELSE 1
        /\ stop.drop_off_type =
             IF request THEN 3 ELSE IF alights /\ ~hidden THEN 0 ELSE 1

\* C15: for every stop built by createStop, pickup_type is 0 iff one of "T ",
\* "TB", "U " is among the activity codes and "N " is not, else 1;
\* drop_off_type is 0 iff one of "T ", "TF", "D " is among them and "N " is
\* not, else 1; and with "R " among them both are 3
C15_ActivityFlags ==
  \A stop \in csStop :
    LET hidden   == Includes(GivenCodes, <<"N", " ">>)
        request  == Includes(GivenCodes, <<"R", " ">>)
        boards   == \E a \in {<<"T", " ">>, <<"T", "B">>, <<"U", " ">>} :
                      Includes(GivenCodes, a)
        alights  == \E a \in {<<"T", " ">>, <<"T", "F">>, <<"D", " ">>} :
                      Includes(GivenCodes, a)
    IN  /\ stop.pickup_type =
             IF request THEN 3 ELSE IF boards /\ ~hidden THEN 0 ELSE 1
        /\ stop.drop_off_type =
             IF request THEN 3 ELSE IF alights /\ ~hidden THEN 0 ELSE 1

-----------------------------------------------------------------------------
(* Claims about the headsign rules, checked under SpecHeadsigns *)

\* the stop at position k has a headsign and the step leaves it as it is
KeepsHeadsign(k) ==
  hsStops[k].stop_headsign # {} =>
    hsStops'[k].stop_headsign = hsStops[k].stop_headsign

\* The headsign a rule has assigned to a stop other than the first is not
\* changed by any rule evaluated later.
LaterStopsKeepHeadsign ==
  [][\A k \in 2..Len(hsStops) : KeepsHeadsign(k)]_vars

\* C23: the headsign rules are first-match-wins: once a rule has assigned
\* the headsign of a stop, no rule evaluated later, for any operator
\* including LO and TL, overwrites it.
C23_FirstMatchWins ==
  [][\A k \in 1..Len(hsStops) : KeepsHeadsign(k)]_vars

-----------------------------------------------------------------------------
(* Claims about the via-text lookup, checked under SpecViaText *)

\* the index of the false destination chosen for the stop at index k
FalseDestinationOf(k) == getFalseDestinationIndex(hsStops, hsOperator, k)

\* the position in hsStops of the destination the via text is for: the
\* false destination if one was chosen, the last stop otherwise
ViaDestination(k) ==
  IF FalseDestinationOf(k) = {} THEN Len(hsStops)
  ELSE (CHOOSE f \in FalseDestinationOf(k) : TRUE) + 1

\* the positions of the later stops before that destination that have an
\* arrival time
LaterCalls(k) ==
  {p \in (k + 2)..(ViaDestination(k) - 1) : hsStops[p].arrival_time # {}}

\* the positions among them where the TIPLOC occurs
OccursAt(k, tiploc) == {p \in LaterCalls(k) : hsStops[p].tiploc_code = tiploc}

\* the first of them
FirstAt(k, tiploc) ==
  CHOOSE p \in OccursAt(k, tiploc) : \A q \in OccursAt(k, tiploc) : p <= q

\* the entries of the table
TableEntries == {hsViaText[n] : n \in 1..Len(hsViaText)}

\* the entry is for the stop and its destination and its Loc1 is called at
ForStopAndDestination(k, entry) ==
  /\ entry.At = hsStops[k + 1].stop_code
  /\ entry.Dest = hsStops[ViaDestination(k)].tiploc_code
  /\ OccursAt(k, entry.Loc1) # {}

\* the entries that match when Loc2 has to occur somewhere after Loc1
MatchingSomewhere(k) ==
  {entry \in TableEntries :
     /\ ForStopAndDestination(k, entry)
     /\ \/ entry.Loc2 = "null"
        \/ \E p \in OccursAt(k, entry.Loc1), q \in OccursAt(k, entry.Loc2) : p < q}

\* the entries that match when the first occurrence of Loc2 has to be
\* after the first occurrence of Loc1
MatchingFirst(k) ==
  {entry \in TableEntries :
     /\ ForStopAndDestination(k, entry)
     /\ \/ entry.Loc2 = "null"
        \/ /\ OccursAt(k, entry.Loc2) # {}
           /\ FirstAt(k, entry.Loc2) > FirstAt(k, entry.Loc1)}

\* the name of the false destination, {} when none was chosen
FalseDestinationName(k) ==
  UNION {getStopName(hsStops[f + 1].stop_id) : f \in FalseDestinationOf(k)}

\* the headsign made of the (false) destination and the entry's Viatext
ViaHeadsign(k, entry) ==
  Rendered(OrElse(FalseDestinationName(k), getStopName(hsStops[Len(hsStops)].stop_id)))
    \o <<" (">> \o entry.Viatext \o <<")">>

\* the headsign of the stop at index k is the one of a matching entry whose
\* Loc1 occurs earliest, or the false destination alone when none matches
HeadsignChosenFrom(k, matching) ==
  IF matching = {}
  THEN hsStops[k + 1].stop_headsign = FalseDestinationName(k)
  ELSE \E entry \in matching :
         /\ \A other \in matching :
              FirstAt(k, entry.Loc1) <= FirstAt(k, other.Loc1)
         /\ hsStops[k + 1].stop_headsign = {ViaHeadsign(k, entry)}

\* C24 as stated: the entry chosen for a stop has At equal to the stop's
\* CRS, Dest equal to the TIPLOC of the false destination if one was chosen
\* and of the destination otherwise, Loc1 among the TIPLOCs of the later
\* stops before that destination that have an arrival time, and Loc2 null
\* or occurring there after Loc1; of several matching entries the one whose
\* Loc1 occurs earliest is chosen, and with no matching entry the headsign
\* is the false destination alone or null.
C24_Original ==
  \A k \in 0..(hsI - 1) : HeadsignChosenFrom(k, MatchingSomewhere(k))

\* C24 amended: as stated, with "Loc2 occurring after Loc1" read on first
\* occurrences: the first occurrence of Loc2 among those TIPLOCs is after
\* the first occurrence of Loc1.
C24_ViaTextChosen ==
  \A k \in 0..(hsI - 1) : HeadsignChosenFrom(k, MatchingFirst(k))

\* C24 witness: two entries match a stop, the table lists the one whose
\* Loc1 occurs later first, and the headsign carries the other's Viatext.
C24_Witness ==
  /\ hsRule = "via"
  /\ \E k \in 0..(hsI - 1) : \E first, second \in MatchingFirst(k) :
       /\ FirstAt(k, first.Loc1) < FirstAt(k, second.Loc1)
       /\ hsViaText = <<second, first>>
       /\ hsStops[k + 1].stop_headsign = {ViaHeadsign(k, first)}

\* a false destination was chosen for a stop and a via text found for it
FalseDestinationWithVia ==
  /\ hsRule = "via"
  /\ \E k \in 0..(hsI - 1) :
       /\ FalseDestinationOf(k) # {}
       /\ MatchingFirst(k) # {}
       /\ hsStops[k + 1].stop_headsign # {}

-----------------------------------------------------------------------------
(* Claims about the times of createStop, checked under SpecStops *)

\* the row's activity has the code "N "
NotAdvertised == Includes(GivenCodes, notAdvertised)

\* the public times the row carries
PublicTimes == csRow.public_arrival_time \cup csRow.public_departure_time

=============================================================================
